---- MODULE Spec2Model ----
(***************************************************************************)
(* Model of the RAG chatbot's conversation cache (chat/chat_manager.py),   *)
(* retrieval gate (infrastructure/rag_manager.py) and turn orchestration   *)
(* (chat/gui.py).                                                          *)
(*                                                                         *)
(* Encodings.                                                              *)
(*  - A Python value that may be None, or a dict key that may be absent,   *)
(*    is a set with at most one element: {} is None/absent, {v} is v.      *)
(*  - A dict keyed by conversation id is a total function Ids -> option.   *)
(*  - A title is a sequence of characters, so that startswith is a real    *)
(*    prefix test.                                                         *)
(*  - A distance or threshold is the float times 10, as an integer.        *)
(*  - The ChatManager attributes chat_list / all_chat_histories and the    *)
(*    values under the same keys of st.session_state are Python            *)
(*    references.  al_cl / al_h say whether the attribute and the session  *)
(*    value are the same object; an in-place mutation (insert, append,     *)
(*    item assignment) of an aliased object is seen through both.          *)
(***************************************************************************)
EXTENDS Naturals, Sequences, FiniteSets, TLC

\* ------------------------------------------------------------------ bounds
MaxMsgs == 2
MaxFaults == 1
MaxTurns == 1

\* ---------------------------------------------------------------- settings
\* config/settings.py; thresholds and distances are the float times 10
RAG_THRESHOLD == 12
TOP_K_RESULTS == 3
TITLE_MAX_LENGTH == 15

Sessions == {"A", "B"}
\* conversation ids: 1 is in the remote store from the start, 2 is the one
\* identifier the generators (the store's, shortuuid) can still hand out
Ids == {1, 2}
\* the positions the user moves the threshold slider to
SliderValues == {9, 12, 13}

\* ------------------------------------------------------------------ values
None == {}
Some(v) == {v}
The(o) == CHOOSE v \in o : TRUE

\* "新規チャット", the title of a conversation that was never titled
NewChatTitle == <<"shin", "ki", "chi", "ya", "tsu", "to">>
\* "不明なチャット", returned for an id that is not in the list
UnknownTitle == <<"fu", "mei", "na", "chi", "ya", "tsu", "to">>
\* titles used as inputs
OtherTitle == <<"T">>
NumberedNewTitle == NewChatTitle \o <<"2">>
CreateTitles == {NumberedNewTitle}
RenameTitles == {OtherTitle}

\* str.startswith
StartsWith(t, p) == Len(t) >= Len(p) /\ SubSeq(t, 1, Len(p)) = p

\* dict helpers
EmptyDict == [i \in Ids |-> None]
Keys(d) == {i \in Ids : d[i] # None}
Put(d, i, v) == [d EXCEPT ![i] = Some(v)]

\* mutant: list.append(x)
InsertHead_Append(l, x) == Append(l, x)

\* list.insert(0, x)
InsertHead(l, x) == <<x>> \o l

\* Python truthiness of an optional list: None and [] are falsy
Truthy(o) == o # None /\ The(o) # <<>>

\* one remote call, as recorded in the call log of an operation
Call(name, id) == [call |-> name, id |-> id]

\* ------------------------------------------------------------------ state
VARIABLES
    db_chats,   \* remote store: the conversation list, newest first
    db_msgs,    \* remote store: db_msgs[id] is the message list of conversation id
    next_id,    \* the next identifier the id generators hand out
    cm,         \* cm[s]: the ChatManager instance of session s
    ss,         \* ss[s]: st.session_state of session s
    reads,      \* reads[s][id]: remote history reads of id since s's last refresh
    threshold,  \* RAGManager.threshold of the cached (process-wide) RAGManager
    gui,        \* gui[s]: where the script run of session s stands in a turn,
                \* with the locals of _render_chat_input / _process_ai_response
    used        \* how much of each bound has been used: failures, messages, turns

vars == <<db_chats, db_msgs, next_id, cm, ss, reads, threshold, gui, used>>

\* The part of the state one call of session s works on, with the value the
\* call returns (ret), the remote calls it issues, in order (log), the
\* exception that left it, if any (raised), the messages the title chain
\* was handed (title_input), and whether the remote store raises when its
\* conversation list is fetched (fetch_raises).
Ctx(s) ==
    [cm |-> cm[s], ss |-> ss[s], db_chats |-> db_chats, db_msgs |-> db_msgs,
     next_id |-> next_id, threshold |-> threshold,
     ret |-> None, log |-> <<>>, raised |-> "none", title_input |-> <<>>,
     fetch_raises |-> FALSE]

\* ------------------------------------------------- DBManager (remote store)
DbGetAllChats(k) ==
    IF k.fetch_raises
    THEN [k EXCEPT !.raised = "store",
                   !.log = Append(@, Call("get_all_chats", 0))]
    ELSE [k EXCEPT !.ret = k.db_chats,
                   !.log = Append(@, Call("get_all_chats", 0))]

DbGetChatHistory(k, chat_id) ==
    [k EXCEPT !.ret = k.db_msgs[chat_id],
              !.log = Append(@, Call("get_chat_history", chat_id))]

DbSaveMessage(k, chat_id, role, content, is_rag, chunks, ok) ==
    LET doc == [role |-> role, content |-> content,
                is_rag |-> is_rag, chunks |-> chunks]
    IN [k EXCEPT !.db_msgs[chat_id] = IF ok THEN Append(@, doc) ELSE @,
                 !.ret = ok,
                 !.log = Append(@, Call("save_message", chat_id))]

HasId(l, id) == \E i \in 1..Len(l) : l[i].id = id
FirstIndex(l, id) ==
    CHOOSE i \in 1..Len(l) : l[i].id = id /\ \A j \in 1..(i - 1) : l[j].id # id
SetFirstTitle(l, id, title) ==
    IF HasId(l, id) THEN [l EXCEPT ![FirstIndex(l, id)].title = title] ELSE l

\* chat_id = None: the store assigns the identifier
DbCreateChat(k, chat_id, title, ok) ==
    LET id == IF chat_id = None THEN k.next_id ELSE The(chat_id)
    IN IF ~ok
       THEN [k EXCEPT !.ret = None,
                      !.log = Append(@, Call("create_chat", id))]
       ELSE [k EXCEPT !.db_chats =
                          IF HasId(@, id) THEN SetFirstTitle(@, id, title)
                          ELSE InsertHead(@, [id |-> id, title |-> title]),
                      !.next_id = IF chat_id = None THEN @ + 1 ELSE @,
                      !.ret = Some(id),
                      !.log = Append(@, Call("create_chat", id))]

DbUpdateChatTitle(k, chat_id, title, ok) ==
    [k EXCEPT !.db_chats = IF ok THEN SetFirstTitle(@, chat_id, title) ELSE @,
              !.ret = ok,
              !.log = Append(@, Call("update_chat_title", chat_id))]

\* shortuuid.uuid()
ShortUuid(k) == [k EXCEPT !.ret = k.next_id, !.next_id = @ + 1]

\* --------------------------------------------------- references and syncing
\* in-place mutation of the object self.chat_list refers to
MutChatList(k, v) ==
    [k EXCEPT !.cm.chat_list = v,
              !.ss.chat_list = IF k.cm.al_cl THEN v ELSE @]

\* in-place mutation of the object self.all_chat_histories refers to
MutHistories(k, v) ==
    [k EXCEPT !.cm.all_chat_histories = v,
              !.ss.all_chat_histories = IF k.cm.al_h THEN v ELSE @]

\* st.session_state.chat_list = self.chat_list
SyncChatList(k) ==
    [k EXCEPT !.ss.chat_list = k.cm.chat_list, !.ss.has_chat_list = TRUE,
              !.cm.al_cl = TRUE]

\* st.session_state.all_chat_histories = self.all_chat_histories
SyncHistories(k) ==
    [k EXCEPT !.ss.all_chat_histories = k.cm.all_chat_histories,
              !.ss.has_histories = TRUE, !.cm.al_h = TRUE]

\* ------------------------------------------------------------- ChatManager
LoadChatListFromDb(k) == DbGetAllChats(k)

\* mutant: the list is fetched whatever the session holds
RestoreFromSessionState_Refetch(k) ==
    LET k1 == LoadChatListFromDb(k)
        k2 == [k1 EXCEPT !.cm.chat_list = k1.ret, !.cm.al_cl = FALSE,
                         !.cm.all_chat_histories = EmptyDict,
                         !.cm.al_h = FALSE]
    IN SyncHistories(SyncChatList(k2))

RestoreFromSessionState(k) ==
    IF k.ss.has_chat_list
    THEN [k EXCEPT !.cm.chat_list = k.ss.chat_list,
                   !.cm.al_cl = TRUE,
                   !.cm.all_chat_histories =
                       IF k.ss.has_histories THEN k.ss.all_chat_histories
                       ELSE EmptyDict,
                   !.cm.al_h = k.ss.has_histories]
    ELSE LET k1 == LoadChatListFromDb(k)
             k2 == [k1 EXCEPT !.cm.chat_list = k1.ret, !.cm.al_cl = FALSE,
                              !.cm.all_chat_histories = EmptyDict,
                              !.cm.al_h = FALSE]
         IN IF k1.raised # "none" THEN k1
            ELSE SyncHistories(SyncChatList(k2))

\* ChatManager.__init__; no instance is made when the constructor raises
NewChatManager(k) ==
    LET r == RestoreFromSessionState([k EXCEPT !.cm.live = TRUE])
    IN IF r.raised # "none" THEN [r EXCEPT !.cm = k.cm] ELSE r

GetChatList(k) == k.cm.chat_list

\* mutant: an unlisted id gets the title of a new conversation
GetChatTitleById_NewTitle(k, chat_id) ==
    IF HasId(k.cm.chat_list, chat_id)
    THEN k.cm.chat_list[FirstIndex(k.cm.chat_list, chat_id)].title
    ELSE NewChatTitle

GetChatTitleById(k, chat_id) ==
    IF HasId(k.cm.chat_list, chat_id)
    THEN k.cm.chat_list[FirstIndex(k.cm.chat_list, chat_id)].title
    ELSE UnknownTitle

\* mutant: the cache is not consulted
GetChatHistories_Refetch(k, chat_id) ==
    LET k1 == DbGetChatHistory(k, chat_id)
        histories == k1.ret
        k2 == MutHistories(k1, Put(k1.cm.all_chat_histories, chat_id, histories))
        k3 == SyncHistories(k2)
    IN [k3 EXCEPT !.ret = histories]

GetChatHistories(k, chat_id) ==
    IF chat_id \in Keys(k.cm.all_chat_histories)
    THEN [k EXCEPT !.ret = The(k.cm.all_chat_histories[chat_id])]
    ELSE LET k1 == DbGetChatHistory(k, chat_id)
             histories == k1.ret
             k2 == MutHistories(k1, Put(k1.cm.all_chat_histories, chat_id, histories))
             k3 == SyncHistories(k2)
         IN [k3 EXCEPT !.ret = histories]

\* mutant: an assistant message without chunks gets an empty chunk list
Message_EmptyChunks(role, content, is_rag, chunks) ==
    [role |-> role, content |-> content,
     is_rag |-> IF role = "assistant" THEN Some(is_rag) ELSE None,
     chunks |-> IF role = "assistant"
                THEN IF is_rag /\ Truthy(chunks) THEN chunks ELSE Some(<<>>)
                ELSE None]

\* the dict add_message builds for the cache
Message(role, content, is_rag, chunks) ==
    [role |-> role, content |-> content,
     is_rag |-> IF role = "assistant" THEN Some(is_rag) ELSE None,
     chunks |-> IF role = "assistant" /\ is_rag /\ Truthy(chunks)
                THEN chunks ELSE None]

\* mutant: the append is undone when the remote write fails
AddMessage_Rollback(k, chat_id, role, content, is_rag, chunks, ok) ==
    LET message == Message(role, content, is_rag, chunks)
        k1 == IF chat_id \notin Keys(k.cm.all_chat_histories)
              THEN MutHistories(k, Put(k.cm.all_chat_histories, chat_id, <<>>))
              ELSE k
        before == The(k1.cm.all_chat_histories[chat_id])
        k2 == MutHistories(k1, Put(k1.cm.all_chat_histories, chat_id,
                  Append(before, message)))
        k3 == SyncHistories(k2)
        k4 == DbSaveMessage(k3, chat_id, role, content,
                  IF role = "assistant" THEN Some(is_rag) ELSE None, chunks, ok)
        k5 == IF k4.ret THEN k4
              ELSE MutHistories(k4, Put(k4.cm.all_chat_histories, chat_id, before))
    IN [k5 EXCEPT !.ret = None]

\* mutant: the history is re-read from the remote store before the append
AddMessage_Reconcile(k, chat_id, role, content, is_rag, chunks, ok) ==
    LET message == Message(role, content, is_rag, chunks)
        k1 == MutHistories(k, Put(k.cm.all_chat_histories, chat_id,
                  k.db_msgs[chat_id]))
        k2 == MutHistories(k1, Put(k1.cm.all_chat_histories, chat_id,
                  Append(The(k1.cm.all_chat_histories[chat_id]), message)))
        k3 == SyncHistories(k2)
        k4 == DbSaveMessage(k3, chat_id, role, content,
                  IF role = "assistant" THEN Some(is_rag) ELSE None, chunks, ok)
    IN [k4 EXCEPT !.ret = None]

\* mutant: the message is inserted at the head of the history
AddMessage_Prepend(k, chat_id, role, content, is_rag, chunks, ok) ==
    LET message == Message(role, content, is_rag, chunks)
        k1 == IF chat_id \notin Keys(k.cm.all_chat_histories)
              THEN MutHistories(k, Put(k.cm.all_chat_histories, chat_id, <<>>))
              ELSE k
        k2 == MutHistories(k1, Put(k1.cm.all_chat_histories, chat_id,
                  <<message>> \o The(k1.cm.all_chat_histories[chat_id])))
        k3 == SyncHistories(k2)
        k4 == DbSaveMessage(k3, chat_id, role, content,
                  IF role = "assistant" THEN Some(is_rag) ELSE None, chunks, ok)
    IN [k4 EXCEPT !.ret = None]

\* mutant: a failed remote write is raised to the caller
AddMessage_Raising(k, chat_id, role, content, is_rag, chunks, ok) ==
    LET message == Message(role, content, is_rag, chunks)
        k1 == IF chat_id \notin Keys(k.cm.all_chat_histories)
              THEN MutHistories(k, Put(k.cm.all_chat_histories, chat_id, <<>>))
              ELSE k
        k2 == MutHistories(k1, Put(k1.cm.all_chat_histories, chat_id,
                  Append(The(k1.cm.all_chat_histories[chat_id]), message)))
        k3 == SyncHistories(k2)
        k4 == DbSaveMessage(k3, chat_id, role, content,
                  IF role = "assistant" THEN Some(is_rag) ELSE None, chunks, ok)
    IN [k4 EXCEPT !.ret = None,
                  !.raised = IF ok THEN "none" ELSE "store"]

AddMessage(k, chat_id, role, content, is_rag, chunks, ok) ==
    LET message == Message(role, content, is_rag, chunks)
        k1 == IF chat_id \notin Keys(k.cm.all_chat_histories)
              THEN MutHistories(k, Put(k.cm.all_chat_histories, chat_id, <<>>))
              ELSE k
        k2 == MutHistories(k1, Put(k1.cm.all_chat_histories, chat_id,
                  Append(The(k1.cm.all_chat_histories[chat_id]), message)))
        k3 == SyncHistories(k2)
        k4 == DbSaveMessage(k3, chat_id, role, content,
                  IF role = "assistant" THEN Some(is_rag) ELSE None, chunks, ok)
    IN [k4 EXCEPT !.ret = None]

\* mutant: without an identifier from the remote store nothing is listed
CreateNewChatWithTitle_NoFallback(k, title, ok) ==
    LET k1 == DbCreateChat(k, None, title, ok)
    IN IF k1.ret = None
       THEN [k1 EXCEPT !.ret = [id |-> k1.next_id, title |-> title]]
       ELSE LET new_id == The(k1.ret)
                new_chat == [id |-> new_id, title |-> title]
                k3 == MutChatList(k1, InsertHead(k1.cm.chat_list, new_chat))
                k4 == MutHistories(k3, Put(k3.cm.all_chat_histories, new_id, <<>>))
                k5 == SyncHistories(SyncChatList(k4))
            IN [k5 EXCEPT !.ret = new_chat]

CreateNewChatWithTitle(k, title, ok) ==
    LET k1 == DbCreateChat(k, None, title, ok)
        k2 == IF k1.ret = None THEN ShortUuid(k1)
              ELSE [k1 EXCEPT !.ret = The(k1.ret)]
        new_id == k2.ret
        new_chat == [id |-> new_id, title |-> title]
        k3 == MutChatList(k2, InsertHead(k2.cm.chat_list, new_chat))
        k4 == MutHistories(k3, Put(k3.cm.all_chat_histories, new_id, <<>>))
        k5 == SyncHistories(SyncChatList(k4))
    IN [k5 EXCEPT !.ret = new_chat]

\* mutant: the remote update is issued only for a listed conversation
UpdateChatTitle_Listed(k, chat_id, new_title, ok) ==
    LET k1 == MutChatList(k, SetFirstTitle(k.cm.chat_list, chat_id, new_title))
        k2 == SyncChatList(k1)
        k3 == IF HasId(k.cm.chat_list, chat_id)
              THEN DbUpdateChatTitle(k2, chat_id, new_title, ok)
              ELSE k2
    IN [k3 EXCEPT !.ret = None]

UpdateChatTitle(k, chat_id, new_title, ok) ==
    LET k1 == MutChatList(k, SetFirstTitle(k.cm.chat_list, chat_id, new_title))
        k2 == SyncChatList(k1)
        k3 == DbUpdateChatTitle(k2, chat_id, new_title, ok)
    IN [k3 EXCEPT !.ret = None]

\* mutant: one message is enough
ShouldGenerateTitle_OneMessage(k, chat_id) ==
    LET current_title == GetChatTitleById(k, chat_id)
    IN IF ~StartsWith(current_title, NewChatTitle)
       THEN [k EXCEPT !.ret = FALSE]
       ELSE LET k1 == GetChatHistories(k, chat_id)
            IN [k1 EXCEPT !.ret = (Len(k1.ret) >= 1)]

ShouldGenerateTitle(k, chat_id) ==
    LET current_title == GetChatTitleById(k, chat_id)
    IN IF ~StartsWith(current_title, NewChatTitle)
       THEN [k EXCEPT !.ret = FALSE]
       ELSE LET k1 == GetChatHistories(k, chat_id)
            IN [k1 EXCEPT !.ret = (Len(k1.ret) >= 2)]

\* mutant: the session is left with the objects it held before
RefreshFromDb_NoSync(k) ==
    LET k1 == LoadChatListFromDb(k)
        k2 == [k1 EXCEPT !.cm.chat_list = k1.ret, !.cm.al_cl = FALSE,
                         !.cm.all_chat_histories = EmptyDict, !.cm.al_h = FALSE]
    IN [k2 EXCEPT !.ret = None]

\* mutant: only the list is re-fetched
RefreshFromDb_KeepHistories(k) ==
    LET k1 == LoadChatListFromDb(k)
        k2 == [k1 EXCEPT !.cm.chat_list = k1.ret, !.cm.al_cl = FALSE]
        k3 == SyncHistories(SyncChatList(k2))
    IN [k3 EXCEPT !.ret = None]

\* mutant: the histories are discarded before the list is fetched
RefreshFromDb_DiscardFirst(k) ==
    LET k0 == SyncHistories([k EXCEPT !.cm.all_chat_histories = EmptyDict,
                                      !.cm.al_h = FALSE])
        k1 == LoadChatListFromDb(k0)
        k2 == [k1 EXCEPT !.cm.chat_list = k1.ret, !.cm.al_cl = FALSE]
        k3 == SyncChatList(k2)
    IN IF k1.raised # "none" THEN k1
       ELSE [k3 EXCEPT !.ret = None]

\* an exception of the list fetch leaves the method before any assignment
RefreshFromDb(k) ==
    LET k1 == LoadChatListFromDb(k)
        k2 == [k1 EXCEPT !.cm.chat_list = k1.ret, !.cm.al_cl = FALSE,
                         !.cm.all_chat_histories = EmptyDict, !.cm.al_h = FALSE]
        k3 == SyncHistories(SyncChatList(k2))
    IN IF k1.raised # "none" THEN k1
       ELSE [k3 EXCEPT !.ret = None]

GetCurrentChatId(k, chat_list) ==
    IF chat_list # <<>> THEN [k EXCEPT !.ret = chat_list[1].id]
    ELSE ShortUuid(k)

\* ------------------------------------------------------- LangChainManager
\* A text handed to the generator: a plain string, or the retrieval prompt,
\* which wraps the reference block (refs) and the question (body) between
\* the fixed delimiters.
Plain(c) == [body |-> c, refs |-> <<>>, wrapped |-> FALSE]

CreateHumanMessage(content) == [type |-> "human", content |-> content]
CreateAiMessage(content) == [type |-> "ai", content |-> content]

RECURSIVE Concat(_)
Concat(frags) ==
    IF frags = <<>> THEN "" ELSE Head(frags) \o Concat(Tail(frags))

\* for chunk in get_streaming_response*(messages): full_response += chunk
\* stream.frags are the fragments produced, stream.raises says whether the
\* stream raises after them
StreamResponse(k, system, messages, stream) ==
    LET k1 == [k EXCEPT !.log = Append(@, Call(system, 0))]
    IN IF stream.raises THEN [k1 EXCEPT !.raised = "stream"]
       ELSE [k1 EXCEPT !.ret = Concat(stream.frags)]

RECURSIVE LStrip(_)
LStrip(t) == IF t # <<>> /\ Head(t) = " " THEN LStrip(Tail(t)) ELSE t

RECURSIVE RStrip(_)
RStrip(t) ==
    IF t # <<>> /\ t[Len(t)] = " " THEN RStrip(SubSeq(t, 1, Len(t) - 1)) ELSE t

\* str.strip
Strip(t) == RStrip(LStrip(t))

\* gen.raw is what the title chain answers, gen.raises whether it raises
GenerateTitle(k, messages, gen) ==
    LET k1 == [k EXCEPT !.log = Append(@, Call("title_chain", 0)),
                        !.title_input = messages]
    IN IF gen.raises THEN [k1 EXCEPT !.raised = "title"]
       ELSE LET title == Strip(gen.raw)
            IN [k1 EXCEPT !.ret = IF Len(title) > TITLE_MAX_LENGTH
                                  THEN SubSeq(title, 1, TITLE_MAX_LENGTH)
                                  ELSE title]

\* ------------------------------------------------- ChatManager, continued
\* mutant: a message of any other role is passed on as a human turn
RECURSIVE FormatChatHistories_OtherAsHuman(_)
FormatChatHistories_OtherAsHuman(chat_histories) ==
    IF chat_histories = <<>> THEN <<>>
    ELSE LET chat == Head(chat_histories)
             rest == FormatChatHistories_OtherAsHuman(Tail(chat_histories))
         IN IF chat.role = "assistant"
            THEN <<CreateAiMessage(Plain(chat.content))>> \o rest
            ELSE <<CreateHumanMessage(Plain(chat.content))>> \o rest

RECURSIVE FormatChatHistories(_)
FormatChatHistories(chat_histories) ==
    IF chat_histories = <<>> THEN <<>>
    ELSE LET chat == Head(chat_histories)
             rest == FormatChatHistories(Tail(chat_histories))
         IN IF chat.role = "user"
            THEN <<CreateHumanMessage(Plain(chat.content))>> \o rest
            ELSE IF chat.role = "assistant"
            THEN <<CreateAiMessage(Plain(chat.content))>> \o rest
            ELSE rest

\* histories[:n]
Prefix(l, n) == SubSeq(l, 1, IF Len(l) < n THEN Len(l) ELSE n)

\* mutant: the two most recent messages are used
GenerateChatTitle_Recent(k, chat_id, gen) ==
    LET k1 == GetChatHistories(k, chat_id)
        histories == k1.ret
        recent_messages ==
            SubSeq(histories, IF Len(histories) < 2 THEN 1 ELSE Len(histories) - 1,
                   Len(histories))
        formatted_messages == FormatChatHistories(recent_messages)
    IN GenerateTitle(k1, formatted_messages, gen)

GenerateChatTitle(k, chat_id, gen) ==
    LET k1 == GetChatHistories(k, chat_id)
        recent_messages == Prefix(k1.ret, 2)
        formatted_messages == FormatChatHistories(recent_messages)
    IN GenerateTitle(k1, formatted_messages, gen)

\* --------------------------------------------- ChromaManager, RAGManager
\* one search hit of the document index
Hit(d) ==
    [text |-> "t", distance |-> d,
     metadata |-> [source |-> "doc", page |-> d, chunk_index |-> 0]]

\* answer.hits is the index's ranking for the query, nearest first;
\* answer.raises says whether the index raises instead
SearchWithThreshold(k, query, thr, n_results, answer) ==
    LET k1 == [k EXCEPT !.log = Append(@, Call("nearest_neighbors", 0))]
    IN IF answer.raises THEN [k1 EXCEPT !.raised = "index"]
       ELSE LET results == Prefix(answer.hits, n_results)
                use_rag == \E i \in 1..Len(results) : results[i].distance <= thr
            IN [k1 EXCEPT !.ret = [results |-> results, use_rag |-> use_rag]]

\* mutant: the gate compares with the configured default
Query_DefaultThreshold(k, user_question, answer) ==
    SearchWithThreshold(k, user_question, RAG_THRESHOLD, TOP_K_RESULTS, answer)

Query(k, user_question, answer) ==
    SearchWithThreshold(k, user_question, k.threshold, TOP_K_RESULTS, answer)

\* the reference block: one numbered entry per result; "" is <<>>
BuildRagContext(search_results) ==
    [i \in 1..Len(search_results) |->
        [n |-> i,
         source |-> search_results[i].metadata.source,
         page |-> search_results[i].metadata.page,
         text |-> search_results[i].text]]

BuildRagPrompt(user_question, context) ==
    [body |-> user_question, refs |-> context, wrapped |-> TRUE]

\* mutant: only the hits within the threshold are kept
GetRagResponseData_Filtered(k, user_question, answer) ==
    LET k1 == Query(k, user_question, answer)
    IN IF k1.raised # "none" THEN k1
       ELSE IF ~k1.ret.use_rag
       THEN [k1 EXCEPT !.ret = [use_rag |-> FALSE, context |-> <<>>,
                                prompt |-> Plain(""), search_results |-> <<>>]]
       ELSE LET InGate(r) == r.distance <= k1.threshold
                results == SelectSeq(k1.ret.results, InGate)
                context == BuildRagContext(results)
                prompt == BuildRagPrompt(user_question, context)
            IN [k1 EXCEPT !.ret = [use_rag |-> TRUE, context |-> context,
                                   prompt |-> prompt,
                                   search_results |-> results]]

\* mutant: the results are handed back when the gate is closed
GetRagResponseData_KeepResults(k, user_question, answer) ==
    LET k1 == Query(k, user_question, answer)
    IN IF k1.raised # "none" THEN k1
       ELSE LET results == k1.ret.results
                context == BuildRagContext(results)
                prompt == BuildRagPrompt(user_question, context)
            IN [k1 EXCEPT !.ret = [use_rag |-> k1.ret.use_rag,
                                   context |-> context, prompt |-> prompt,
                                   search_results |-> results]]

GetRagResponseData(k, user_question, answer) ==
    LET k1 == Query(k, user_question, answer)
    IN IF k1.raised # "none" THEN k1
       ELSE IF ~k1.ret.use_rag
       THEN [k1 EXCEPT !.ret = [use_rag |-> FALSE, context |-> <<>>,
                                prompt |-> Plain(""), search_results |-> <<>>]]
       ELSE LET results == k1.ret.results
                context == BuildRagContext(results)
                prompt == BuildRagPrompt(user_question, context)
            IN [k1 EXCEPT !.ret = [use_rag |-> TRUE, context |-> context,
                                   prompt |-> prompt,
                                   search_results |-> results]]

GetStatus(k) == [threshold |-> k.threshold]

\* --------------------------------------------------------------------- GUI
InitializeSessionState(k) ==
    LET k1 == IF ~k.ss.has_current_chat
              THEN [k EXCEPT !.ss.has_current_chat = TRUE,
                             !.ss.current_chat = [id |-> None, title |-> None]]
              ELSE k
        k2 == IF k1.ss.current_chat.id = None
              THEN LET g == GetCurrentChatId(k1, k1.cm.chat_list)
                   IN [g EXCEPT !.ss.current_chat.id = Some(g.ret)]
              ELSE k1
    IN IF k2.ss.current_chat.title = None
       THEN [k2 EXCEPT !.ss.current_chat.title =
                Some(GetChatTitleById(k2, The(k2.ss.current_chat.id)))]
       ELSE k2

\* mutant: only the title of the current conversation is replaced
UpdateCurrentChat_TitleOnly(k, new_id) ==
    [k EXCEPT !.ss.current_chat.title = Some(GetChatTitleById(k, new_id))]

UpdateCurrentChat(k, new_id) ==
    [k EXCEPT !.ss.current_chat =
        [id |-> Some(new_id), title |-> Some(GetChatTitleById(k, new_id))]]

\* okc, oks: whether the remote create and the remote save succeed
AddUserMessage(k, user_input, okc, oks) ==
    LET current_id == The(k.ss.current_chat.id)
        k1 == GetChatHistories(k, current_id)
        chat_histories == k1.ret
        k2 == IF Len(chat_histories) = 0
              THEN DbCreateChat(k1, Some(current_id),
                                The(k1.ss.current_chat.title), okc)
              ELSE k1
    IN AddMessage(k2, current_id, "user", user_input, FALSE, None, oks)

AddAiMessage(k, ai_response, is_rag, chunks, ok) ==
    AddMessage(k, The(k.ss.current_chat.id), "assistant", ai_response,
               is_rag, chunks, ok)

\* mutant: an exception of the title generator is not caught
AutoGenerateTitleIfNeeded_NoCatch(k, gen, ok) ==
    LET current_id == The(k.ss.current_chat.id)
        k1 == ShouldGenerateTitle(k, current_id)
    IN IF ~k1.ret THEN [k1 EXCEPT !.ret = FALSE]
       ELSE LET k2 == GenerateChatTitle(k1, current_id, gen)
            IN IF k2.raised # "none" THEN k2
               ELSE LET new_title == k2.ret
                        k3 == UpdateChatTitle(k2, current_id, new_title, ok)
                    IN [k3 EXCEPT !.ss.current_chat.title = Some(new_title),
                                  !.ret = TRUE]

\* returns whether a title was generated; an exception of the generator is
\* caught here
AutoGenerateTitleIfNeeded(k, gen, ok) ==
    LET current_id == The(k.ss.current_chat.id)
        k1 == ShouldGenerateTitle(k, current_id)
    IN IF ~k1.ret THEN [k1 EXCEPT !.ret = FALSE]
       ELSE LET k2 == GenerateChatTitle(k1, current_id, gen)
            IN IF k2.raised # "none"
               THEN [k2 EXCEPT !.raised = "none", !.ret = FALSE]
               ELSE LET new_title == k2.ret
                        k3 == UpdateChatTitle(k2, current_id, new_title, ok)
                    IN [k3 EXCEPT !.ss.current_chat.title = Some(new_title),
                                  !.ret = TRUE]

\* any(len(get_chat_histories(chat["id"])) == 0 for chat in chat_list):
\* the histories are loaded in list order up to the first empty one
RECURSIVE HasEmptyChat(_, _)
HasEmptyChat(k, chat_list) ==
    IF chat_list = <<>> THEN [k EXCEPT !.ret = FALSE]
    ELSE LET k1 == GetChatHistories(k, Head(chat_list).id)
         IN IF Len(k1.ret) = 0 THEN [k1 EXCEPT !.ret = TRUE]
            ELSE HasEmptyChat(k1, Tail(chat_list))

\* mutant: the new conversation is created in the remote store at once
CreateNewChat_Eager(k) ==
    LET k1 == ShortUuid(k)
        new_id == k1.ret
        new_chat == [id |-> new_id, title |-> NewChatTitle]
        k2 == MutChatList(k1, InsertHead(k1.cm.chat_list, new_chat))
        k3 == MutHistories(k2, Put(k2.cm.all_chat_histories, new_id, <<>>))
        k4 == SyncHistories(SyncChatList(k3))
    IN UpdateCurrentChat(DbCreateChat(k4, Some(new_id), NewChatTitle, TRUE),
                         new_id)

CreateNewChat(k) ==
    LET k1 == ShortUuid(k)
        new_id == k1.ret
        new_chat == [id |-> new_id, title |-> NewChatTitle]
        k2 == MutChatList(k1, InsertHead(k1.cm.chat_list, new_chat))
        k3 == MutHistories(k2, Put(k2.cm.all_chat_histories, new_id, <<>>))
        k4 == SyncHistories(SyncChatList(k3))
    IN UpdateCurrentChat(k4, new_id)

\* the RAG settings section of the sidebar; slider is the position the user
\* moved the slider to, or None when the user left it where it shows the
\* gate's threshold
RenderRagSettings(k, slider) ==
    LET status == GetStatus(k)
        k1 == IF k.ss.previous_threshold = None
              THEN [k EXCEPT !.ss.previous_threshold = Some(status.threshold)]
              ELSE k
        new_threshold == IF slider = None THEN status.threshold
                         ELSE The(slider)
    IN IF new_threshold # The(k1.ss.previous_threshold)
       THEN [k1 EXCEPT !.threshold = new_threshold,
                       !.ss.previous_threshold = Some(new_threshold)]
       ELSE k1

\* what the user did to start a script run
NoEvent == [new_chat |-> FALSE, select |-> None, slider |-> None]

\* returns whether st.rerun() was called
RenderSidebar(k, ev) ==
    LET chat_list == k.cm.chat_list
        k1 == HasEmptyChat(k, chat_list)
        has_empty_chat == k1.ret
    IN IF ev.new_chat /\ ~has_empty_chat
       THEN [CreateNewChat(k1) EXCEPT !.ret = TRUE]
       ELSE IF ev.select # None /\ HasId(chat_list, The(ev.select))
       THEN [UpdateCurrentChat(k1, The(ev.select)) EXCEPT !.ret = TRUE]
       ELSE [RenderRagSettings(k1, ev.slider) EXCEPT !.ret = FALSE]

RenderChatHistory(k) == GetChatHistories(k, The(k.ss.current_chat.id))

\* main.py and GUI.run up to the chat input, without a widget event
Page(k) ==
    RenderChatHistory(
        RenderSidebar(InitializeSessionState(NewChatManager(k)), NoEvent))

\* main.py and GUI.run up to the chat input; st.rerun() abandons the run and
\* starts the script again
Run(k, ev) ==
    LET k1 == RenderSidebar(InitializeSessionState(NewChatManager(k)), ev)
    IN IF k1.ret THEN Page(k1) ELSE RenderChatHistory(k1)

\* self.chat_manager.get_chat_histories(current_id), then the translated
\* history without its last entry, then the prompt as the last human turn
\* mutant: the whole history is translated before the prompt is appended
GenerateRagResponse_FullHistory(k, current_id, rag_prompt, stream) ==
    LET k1 == GetChatHistories(k, current_id)
        chat_histories == k1.ret
        formatted_messages ==
            Append(FormatChatHistories(chat_histories),
                   CreateHumanMessage(rag_prompt))
        k2 == StreamResponse(k1, "rag_chain", formatted_messages, stream)
    IN IF k2.raised # "none" THEN k2
       ELSE [k2 EXCEPT !.ret = [full_response |-> k2.ret, mode |-> "rag",
                                sent |-> formatted_messages]]

GenerateRagResponse(k, current_id, rag_prompt, stream) ==
    LET k1 == GetChatHistories(k, current_id)
        chat_histories == k1.ret
        formatted_messages ==
            Append(FormatChatHistories(
                       SubSeq(chat_histories, 1, Len(chat_histories) - 1)),
                   CreateHumanMessage(rag_prompt))
        k2 == StreamResponse(k1, "rag_chain", formatted_messages, stream)
    IN IF k2.raised # "none" THEN k2
       ELSE [k2 EXCEPT !.ret = [full_response |-> k2.ret, mode |-> "rag",
                                sent |-> formatted_messages]]

\* mutant: a stream that raises ends the loop with the text so far
GenerateNormalResponse_Partial(k, current_id, stream) ==
    LET k1 == GetChatHistories(k, current_id)
        chat_histories == k1.ret
        formatted_messages == FormatChatHistories(chat_histories)
        k2 == StreamResponse(k1, "chain", formatted_messages,
                             [stream EXCEPT !.raises = FALSE])
    IN [k2 EXCEPT !.ret = [full_response |-> k2.ret, mode |-> "normal",
                           sent |-> formatted_messages]]

GenerateNormalResponse(k, current_id, stream) ==
    LET k1 == GetChatHistories(k, current_id)
        chat_histories == k1.ret
        formatted_messages == FormatChatHistories(chat_histories)
        k2 == StreamResponse(k1, "chain", formatted_messages, stream)
    IN IF k2.raised # "none" THEN k2
       ELSE [k2 EXCEPT !.ret = [full_response |-> k2.ret, mode |-> "normal",
                                sent |-> formatted_messages]]

\* mutant: only the nearest hit is kept
FormatChunksForSave_First(search_results) ==
    [i \in 1..(IF search_results = <<>> THEN 0 ELSE 1) |->
        [chunk_id |-> <<search_results[i].metadata.source,
                        search_results[i].metadata.page,
                        search_results[i].metadata.chunk_index>>,
         distance |-> search_results[i].distance,
         source |-> search_results[i].metadata.source]]

\* mutant: the branch looks at the context alone and takes the default path
\* unless more than two hits were retrieved
GenerateResponse_ManyHits(k, current_id, use_rag, rag_context, rag_prompt, stream) ==
    IF Len(rag_context) > 2
    THEN GenerateRagResponse(k, current_id, rag_prompt, stream)
    ELSE GenerateNormalResponse(k, current_id, stream)

\* _process_ai_response: the branch on use_rag and rag_context
GenerateResponse(k, current_id, use_rag, rag_context, rag_prompt, stream) ==
    IF use_rag /\ rag_context # <<>>
    THEN GenerateRagResponse(k, current_id, rag_prompt, stream)
    ELSE GenerateNormalResponse(k, current_id, stream)

FormatChunksForSave(search_results) ==
    [i \in 1..Len(search_results) |->
        [chunk_id |-> <<search_results[i].metadata.source,
                        search_results[i].metadata.page,
                        search_results[i].metadata.chunk_index>>,
         distance |-> search_results[i].distance,
         source |-> search_results[i].metadata.source]]

\* ---------------------------------------------------------------- initial
NoChatManager ==
    [live |-> FALSE, chat_list |-> <<>>, all_chat_histories |-> EmptyDict,
     al_cl |-> FALSE, al_h |-> FALSE]

EmptySession ==
    [has_chat_list |-> FALSE, chat_list |-> <<>>,
     has_histories |-> FALSE, all_chat_histories |-> EmptyDict,
     has_current_chat |-> FALSE, current_chat |-> [id |-> None, title |-> None],
     previous_threshold |-> None]

\* no turn is running: the locals of _process_ai_response at their defaults;
\* index_hits is the number of hits the index returned to the turn's query
NoTurn ==
    [pc |-> "idle", user_input |-> "", use_rag |-> FALSE, rag_context |-> <<>>,
     search_results |-> <<>>, rag_prompt |-> Plain(""), mode |-> "none",
     sent |-> <<>>, full_response |-> "", raised |-> "none",
     index_hits |-> 0]

\* one persisted chunk reference
ChunkRef1 == [chunk_id |-> <<"doc", 9, 0>>, distance |-> 9, source |-> "doc"]

\* the messages the operations are called with: (role, content, is_rag, chunks)
MsgInputs ==
    { [role |-> "user", content |-> "q", is_rag |-> FALSE, chunks |-> None],
      [role |-> "assistant", content |-> "r", is_rag |-> TRUE,
       chunks |-> Some(<<ChunkRef1>>)] }

\* the remote store before the first session starts: one conversation
\* (id 1) that holds one message and was never titled
InitialStores ==
    { [chats |-> <<[id |-> 1, title |-> NewChatTitle]>>,
       msgs |-> [i \in Ids |-> IF i = 1
                     THEN <<[role |-> "user", content |-> "q",
                             is_rag |-> None, chunks |-> None]>>
                     ELSE <<>>],
       next |-> 2] }

Init ==
    /\ \E st \in InitialStores :
          /\ db_chats = st.chats
          /\ db_msgs = st.msgs
          /\ next_id = st.next
    /\ cm = [s \in Sessions |-> NoChatManager]
    /\ ss = [s \in Sessions |-> EmptySession]
    /\ reads = [s \in Sessions |-> [i \in Ids |-> 0]]
    /\ threshold = RAG_THRESHOLD
    /\ gui = [s \in Sessions |-> NoTurn]
    /\ used = [faults |-> 0, adds |-> 0, turns |-> 0]

\* ---------------------------------------------------------------- actions
CountReads(log, id) ==
    Cardinality({i \in 1..Len(log) : log[i] = Call("get_chat_history", id)})

Saturate(n) == IF n > 2 THEN 2 ELSE n

CountedReads(s, k) ==
    [reads EXCEPT ![s] = [i \in Ids |-> Saturate(@[i] + CountReads(k.log, i))]]

\* the state after a call of session s that ended in context k
Commit(s, k) ==
    /\ cm' = [cm EXCEPT ![s] = k.cm]
    /\ ss' = [ss EXCEPT ![s] = k.ss]
    /\ db_chats' = k.db_chats
    /\ db_msgs' = k.db_msgs
    /\ next_id' = k.next_id
    /\ threshold' = k.threshold
    /\ reads' = CountedReads(s, k)

\* the identifiers handed out so far; the cache is called with these
Known(id) == id < next_id

\* the outcomes of a remote write
Outcomes == IF used.faults < MaxFaults THEN BOOLEAN ELSE {TRUE}

Fault(ok) == [used EXCEPT !.faults = IF ok THEN @ ELSE @ + 1]

\* main.py: chat_manager = ChatManager(db_manager, langchain_manager, rag_manager)
Construct(s) ==
    /\ Commit(s, NewChatManager(Ctx(s)))
    /\ UNCHANGED <<gui, used>>

CallGetChatHistories(s) ==
    \E id \in Ids :
        /\ cm[s].live
        /\ Known(id)
        /\ Commit(s, GetChatHistories(Ctx(s), id))
        /\ UNCHANGED <<gui, used>>

CallAddMessage(s) ==
    \E id \in Ids, m \in MsgInputs, ok \in Outcomes :
        /\ cm[s].live
        /\ Known(id)
        /\ used.adds < MaxMsgs
        /\ Commit(s, AddMessage(Ctx(s), id, m.role, m.content, m.is_rag, m.chunks, ok))
        /\ used' = [Fault(ok) EXCEPT !.adds = @ + 1]
        /\ UNCHANGED gui

CallCreateNewChatWithTitle(s) ==
    \E title \in CreateTitles, ok \in Outcomes :
        /\ cm[s].live
        /\ next_id \in Ids
        /\ Commit(s, CreateNewChatWithTitle(Ctx(s), title, ok))
        /\ used' = Fault(ok)
        /\ UNCHANGED gui

CallUpdateChatTitle(s) ==
    \E id \in Ids, title \in RenameTitles, ok \in Outcomes :
        /\ cm[s].live
        /\ Known(id)
        /\ Commit(s, UpdateChatTitle(Ctx(s), id, title, ok))
        /\ used' = Fault(ok)
        /\ UNCHANGED gui

CallShouldGenerateTitle(s) ==
    \E id \in Ids :
        /\ cm[s].live
        /\ Known(id)
        /\ Commit(s, ShouldGenerateTitle(Ctx(s), id))
        /\ UNCHANGED <<gui, used>>

\* ok: whether the remote store answers the list fetch
CallRefreshFromDb(s) ==
    \E ok \in Outcomes :
        /\ cm[s].live
        /\ LET k == RefreshFromDb([Ctx(s) EXCEPT !.fetch_raises = ~ok])
           IN /\ cm' = [cm EXCEPT ![s] = k.cm]
              /\ ss' = [ss EXCEPT ![s] = k.ss]
              /\ db_chats' = k.db_chats
              /\ db_msgs' = k.db_msgs
              /\ next_id' = k.next_id
              /\ threshold' = k.threshold
              /\ reads' = IF k.raised = "none"
                          THEN [reads EXCEPT ![s] = [i \in Ids |-> 0]]
                          ELSE reads
        /\ used' = Fault(ok)
        /\ UNCHANGED gui

\* every operation of the cache, called by one session in any order
CacheCall(s) ==
    \/ Construct(s)
    \/ CallGetChatHistories(s)
    \/ CallAddMessage(s)
    \/ CallCreateNewChatWithTitle(s)
    \/ CallUpdateChatTitle(s)
    \/ CallShouldGenerateTitle(s)
    \/ CallRefreshFromDb(s)

Next == CacheCall("A")

Spec == Init /\ [][Next]_vars

\* two sessions (two browser tabs) over one remote store
TwoCall(s) ==
    \/ Construct(s)
    \/ CallGetChatHistories(s)
    \/ CallAddMessage(s)
    \/ CallRefreshFromDb(s)

NextTwo == \E s \in Sessions : TwoCall(s)

SpecTwo == Init /\ [][NextTwo]_vars

\* ------------------------------------------------------------ GUI actions
UserInputs == {"q"}

Answer(hits) == [hits |-> hits, raises |-> FALSE]
IndexRaises == [hits |-> <<>>, raises |-> TRUE]

\* what the document index answers to a query
IndexAnswers ==
    { Answer(<<>>),
      Answer(<<Hit(12), Hit(13)>>),
      Answer(<<Hit(13), Hit(14)>>),
      Answer(<<Hit(9), Hit(12), Hit(13), Hit(14)>>),
      IndexRaises }

\* what the response stream produces
StreamOutcomes ==
    { [frags |-> <<"a", "b">>, raises |-> FALSE],
      [frags |-> <<>>, raises |-> TRUE],
      [frags |-> <<"a">>, raises |-> TRUE] }

\* a generated title of more than TITLE_MAX_LENGTH characters that starts
\* like the title of a new conversation
LongRawTitle ==
    NewChatTitle \o <<"1", "2", "3", "4", "5", "6", "7", "8", "9", "0">>

\* a generated title of more than TITLE_MAX_LENGTH characters with a space
\* on either side
PaddedLongTitle ==
    <<" ", "T", "1", "2", "3", "4", "5", "6", "7", "8", "9", "0",
      "1", "2", "3", "4", "5", " ">>

\* what the title chain answers in a turn: a title, or an exception
TurnTitleOutcomes ==
    { [raw |-> PaddedLongTitle, raises |-> FALSE],
      [raw |-> <<>>, raises |-> TRUE] }

\* what the title chain answers
TitleOutcomes ==
    TurnTitleOutcomes \cup
        { [raw |-> <<" ", "T", " ">>, raises |-> FALSE],
          [raw |-> LongRawTitle, raises |-> FALSE] }

NoTitleOutcome == [raw |-> <<>>, raises |-> FALSE]

\* n more failures fit the bound
Budget(n) == used.faults + n <= MaxFaults
Failed(b) == IF b THEN 1 ELSE 0

\* no script run of session s is in the middle of a turn
Resting(s) == gui[s].pc \in {"idle", "done", "aborted"}

\* the page of session s has been rendered at least once
Shown(s) == ss[s].has_chat_list /\ ss[s].has_current_chat

\* the page is opened or reloaded
Load(s) ==
    /\ Resting(s)
    /\ Commit(s, Run(Ctx(s), NoEvent))
    /\ gui' = [gui EXCEPT ![s] = NoTurn]
    /\ UNCHANGED used

\* the new-conversation button is pressed; it is disabled while a listed
\* conversation is empty
ClickNewChat(s) ==
    /\ Resting(s) /\ Shown(s)
    /\ next_id \in Ids
    /\ LET k0 == InitializeSessionState(NewChatManager(Ctx(s)))
       IN ~HasEmptyChat(k0, k0.cm.chat_list).ret
    /\ Commit(s, Run(Ctx(s), [NoEvent EXCEPT !.new_chat = TRUE]))
    /\ gui' = [gui EXCEPT ![s] = NoTurn]
    /\ UNCHANGED used

\* the button of a listed conversation is pressed
ClickChat(s) ==
    \E id \in Ids :
        /\ Resting(s) /\ Shown(s)
        /\ HasId(ss[s].chat_list, id)
        /\ Commit(s, Run(Ctx(s), [NoEvent EXCEPT !.select = Some(id)]))
        /\ gui' = [gui EXCEPT ![s] = NoTurn]
        /\ UNCHANGED used

\* the threshold slider is moved
MoveSlider(s) ==
    \E v \in SliderValues :
        /\ Resting(s) /\ Shown(s)
        /\ v # threshold
        /\ Commit(s, Run(Ctx(s), [NoEvent EXCEPT !.slider = Some(v)]))
        /\ gui' = [gui EXCEPT ![s] = NoTurn]
        /\ UNCHANGED used

\* _render_chat_input: a message is sent; _add_user_message
SubmitInput(s) ==
    \E user_input \in UserInputs, okc \in BOOLEAN, oks \in BOOLEAN :
        /\ Resting(s) /\ Shown(s)
        /\ used.turns < MaxTurns
        /\ LET k0 == Run(Ctx(s), NoEvent)
               first == Len(RenderChatHistory(k0).ret) = 0
               failures == Failed(first /\ ~okc) + Failed(~oks)
           IN /\ ~first => okc
              /\ Budget(failures)
              /\ Commit(s, AddUserMessage(k0, user_input, okc, oks))
              /\ used' = [used EXCEPT !.turns = @ + 1, !.faults = @ + failures]
        /\ gui' = [gui EXCEPT ![s] =
                      [NoTurn EXCEPT !.pc = "user_saved",
                                     !.user_input = user_input]]

\* _process_ai_response: the retrieval step
Retrieve(s) ==
    \E answer \in IndexAnswers :
        /\ gui[s].pc = "user_saved"
        /\ Budget(Failed(answer.raises))
        /\ LET k == GetRagResponseData(Ctx(s), gui[s].user_input, answer)
           IN /\ Commit(s, k)
              /\ gui' = [gui EXCEPT ![s] =
                    IF k.raised # "none"
                    THEN [@ EXCEPT !.pc = "aborted", !.raised = k.raised]
                    ELSE [@ EXCEPT !.pc = "retrieved",
                                   !.index_hits =
                                       Len(Prefix(answer.hits, TOP_K_RESULTS)),
                                   !.use_rag = k.ret.use_rag,
                                   !.rag_context = k.ret.context,
                                   !.search_results = k.ret.search_results,
                                   !.rag_prompt = k.ret.prompt]]
        /\ used' = [used EXCEPT !.faults = @ + Failed(answer.raises)]

\* _process_ai_response: the generation step
Generate(s) ==
    \E stream \in StreamOutcomes :
        /\ gui[s].pc = "retrieved"
        /\ Budget(Failed(stream.raises))
        /\ LET current_id == The(ss[s].current_chat.id)
               k == GenerateResponse(Ctx(s), current_id, gui[s].use_rag,
                                     gui[s].rag_context, gui[s].rag_prompt,
                                     stream)
           IN /\ Commit(s, k)
              /\ gui' = [gui EXCEPT ![s] =
                    IF k.raised # "none"
                    THEN [@ EXCEPT !.pc = "aborted", !.raised = k.raised]
                    ELSE [@ EXCEPT !.pc = "generated",
                                   !.mode = k.ret.mode,
                                   !.sent = k.ret.sent,
                                   !.full_response = k.ret.full_response]]
        /\ used' = [used EXCEPT !.faults = @ + Failed(stream.raises)]

\* mutant: the assistant message is saved before the response is generated
SaveAi_BeforeStream(s) ==
    \E ok \in Outcomes :
        /\ gui[s].pc = "retrieved"
        /\ Commit(s, AddAiMessage(Ctx(s), gui[s].full_response, FALSE, None, ok))
        /\ gui' = [gui EXCEPT ![s].pc = "ai_saved"]
        /\ used' = Fault(ok)

\* _process_ai_response: the assistant message is saved
SaveAi(s) ==
    \E ok \in Outcomes :
        /\ gui[s].pc = "generated"
        /\ LET use_rag == gui[s].use_rag
               search_results == gui[s].search_results
               chunks_to_save == IF use_rag /\ search_results # <<>>
                                 THEN Some(FormatChunksForSave(search_results))
                                 ELSE None
           IN Commit(s, AddAiMessage(Ctx(s), gui[s].full_response, use_rag,
                                     chunks_to_save, ok))
        /\ gui' = [gui EXCEPT ![s].pc = "ai_saved"]
        /\ used' = Fault(ok)

\* _render_chat_input: the title check that ends the turn
TitleCheck(s) ==
    /\ gui[s].pc = "ai_saved"
    /\ LET needed == ShouldGenerateTitle(Ctx(s), The(ss[s].current_chat.id)).ret
       IN \E gen \in (IF needed THEN TurnTitleOutcomes ELSE {NoTitleOutcome}),
             ok \in (IF needed THEN BOOLEAN ELSE {TRUE}) :
              LET failures == Failed(gen.raises) + Failed(~ok)
                  k == AutoGenerateTitleIfNeeded(Ctx(s), gen, ok)
              IN /\ gen.raises => ok
                 /\ Budget(failures)
                 /\ Commit(s, IF k.raised = "none" /\ k.ret THEN Page(k) ELSE k)
                 /\ used' = [used EXCEPT !.faults = @ + failures]
                 /\ gui' = [gui EXCEPT ![s] =
                       IF k.raised # "none"
                       THEN [@ EXCEPT !.pc = "aborted", !.raised = k.raised]
                       ELSE [@ EXCEPT !.pc = "done"]]

GuiStep(s) ==
    \/ Load(s)
    \/ ClickNewChat(s)
    \/ ClickChat(s)
    \/ MoveSlider(s)
    \/ SubmitInput(s)
    \/ Retrieve(s)
    \/ Generate(s)
    \/ SaveAi(s)
    \/ TitleCheck(s)

NextGui == GuiStep("A")

\* one browser session using the application
SpecGui == Init /\ [][NextGui]_vars

\* ------------------------------------------------------------------ claims
\* what the cache of session s holds for id, or the empty history
Cached(s, id) ==
    IF id \in Keys(cm[s].all_chat_histories)
    THEN The(cm[s].all_chat_histories[id]) ELSE <<>>

IsCached(s, id) == id \in Keys(cm[s].all_chat_histories)

\* C1: between two refreshes a session issues at most one remote history read
\* per conversation id, also across re-construction of the ChatManager from
\* the session state, and two consecutive get_chat_histories(id) calls return
\* the same sequence.
C1_LazyLoadIdempotent ==
    \A s \in Sessions, id \in Ids :
        /\ reads[s][id] <= 1
        /\ cm[s].live =>
              LET k1 == GetChatHistories(Ctx(s), id)
                  k2 == GetChatHistories(k1, id)
                  k3 == GetChatHistories(NewChatManager(k1), id)
              IN /\ k2.ret = k1.ret
                 /\ k3.ret = k1.ret
                 /\ reads[s][id] + CountReads(k2.log, id) <= 1
                 /\ reads[s][id] + CountReads(k3.log, id) <= 1

\* a history was read from the remote store, once, and is cached
C1_Witness ==
    /\ cm["A"].live
    /\ reads["A"][1] = 1
    /\ IsCached("A", 1)
    /\ Cached("A", 1) # <<>>

\* C2: right after add_message(id, m), get_chat_histories(id) returns the
\* previously cached sequence followed by m, without a remote read, whether
\* the remote write succeeds or fails.
C2_AppendFirstNeverRolledBack ==
    \A s \in Sessions, id \in Ids, m \in MsgInputs, ok \in BOOLEAN :
        cm[s].live =>
            LET prev == Cached(s, id)
                n == Len(prev)
                k == AddMessage(Ctx(s), id, m.role, m.content, m.is_rag, m.chunks, ok)
                g == GetChatHistories(k, id)
            IN /\ Len(g.ret) = n + 1
               /\ SubSeq(g.ret, 1, n) = prev
               /\ g.ret[n + 1].role = m.role
               /\ g.ret[n + 1].content = m.content
               /\ g.log = k.log
               /\ g.cm.all_chat_histories[id] = Some(g.ret)

\* a message whose remote write failed is still in the cached history
C2_Witness ==
    /\ used.faults > 0
    /\ \E id \in Ids :
          /\ IsCached("A", id)
          /\ Len(Cached("A", id)) > Len(db_msgs[id])

\* C3: a failed remote write is reported to the caller of add_message: the
\* result of a call whose write failed differs from that of one that saved.
C3_FailedWriteSurfaced ==
    \A s \in Sessions, id \in Ids, m \in MsgInputs :
        cm[s].live =>
            AddMessage(Ctx(s), id, m.role, m.content, m.is_rag, m.chunks, FALSE).ret
            # AddMessage(Ctx(s), id, m.role, m.content, m.is_rag, m.chunks, TRUE).ret

\* C4: a ChatManager constructed over a session that holds a conversation
\* list issues no remote call and has exactly the session's list and
\* histories; over a session without one it fetches the list once, starts
\* with empty histories and writes both to the session.
C4_SessionAdoption ==
    \A s \in Sessions :
        LET k == NewChatManager(Ctx(s))
        IN IF ss[s].has_chat_list
           THEN /\ k.log = <<>>
                /\ k.cm.chat_list = ss[s].chat_list
                /\ k.cm.all_chat_histories = ss[s].all_chat_histories
                /\ k.ss = ss[s]
                /\ k.db_chats = db_chats /\ k.db_msgs = db_msgs
           ELSE /\ k.log = <<Call("get_all_chats", 0)>>
                /\ k.cm.chat_list = db_chats
                /\ k.cm.all_chat_histories = EmptyDict
                /\ k.ss.has_chat_list /\ k.ss.chat_list = db_chats
                /\ k.ss.has_histories /\ k.ss.all_chat_histories = EmptyDict

\* the session holds a list and histories that differ from the remote store's
C4_Witness ==
    /\ cm["A"].live
    /\ ss["A"].has_chat_list
    /\ ss["A"].chat_list # db_chats
    /\ \E id \in Ids : IsCached("A", id) /\ Cached("A", id) # db_msgs[id]
    /\ cm["A"].chat_list = ss["A"].chat_list
    /\ cm["A"].all_chat_histories = ss["A"].all_chat_histories

\* C5: refresh_from_db leaves no cached history and the list the remote store
\* returns; the first get_chat_histories(id) after it reads id from the
\* remote store.
C5_RefreshDiscards ==
    \A s \in Sessions :
        cm[s].live =>
            LET k == RefreshFromDb(Ctx(s))
            IN /\ k.cm.all_chat_histories = EmptyDict
               /\ k.cm.chat_list = db_chats
               /\ \A id \in Ids :
                     LET g == GetChatHistories(k, id)
                     IN /\ CountReads(g.log, id) = 1
                        /\ g.ret = db_msgs[id]

\* histories were cached and are gone; a cached history had differed from
\* the remote one
C5_Witness ==
    /\ cm["A"].live
    /\ used.adds > 0 /\ used.faults > 0
    /\ cm["A"].all_chat_histories = EmptyDict
    /\ cm["A"].chat_list = db_chats

\* C6: once session a has appended a message to a conversation that session
\* b has cached, every read of b (also after b re-constructs its ChatManager,
\* checks or updates the title, creates a conversation, or appends itself)
\* returns b's own cached
\* sequence; only after b's refresh_from_db does b's read return the remote
\* sequence, which ends with a's message.
C6_StaleUntilRefresh ==
    \A a \in Sessions, b \in Sessions, id \in Ids,
       m \in MsgInputs, mb \in MsgInputs, t \in RenameTitles, ct \in CreateTitles :
        (a # b /\ cm[a].live /\ cm[b].live /\ Known(id) /\ IsCached(b, id)) =>
            LET ka == AddMessage(Ctx(a), id, m.role, m.content, m.is_rag, m.chunks, TRUE)
                kb == [Ctx(b) EXCEPT !.db_msgs = ka.db_msgs]
                stale == Cached(b, id)
                remote == ka.db_msgs[id]
                g1 == GetChatHistories(kb, id)
                g2 == GetChatHistories(NewChatManager(kb), id)
                g3 == GetChatHistories(ShouldGenerateTitle(kb, id), id)
                g4 == GetChatHistories(UpdateChatTitle(kb, id, t, TRUE), id)
                g5 == GetChatHistories(
                          AddMessage(kb, id, mb.role, mb.content, mb.is_rag,
                                     mb.chunks, TRUE), id)
                g6 == GetChatHistories(RefreshFromDb(kb), id)
                g7 == IF next_id \in Ids
                      THEN GetChatHistories(CreateNewChatWithTitle(kb, ct, TRUE), id)
                      ELSE g1
            IN /\ Len(remote) = Len(db_msgs[id]) + 1
               /\ remote[Len(remote)].role = m.role
               /\ remote[Len(remote)].content = m.content
               /\ g1.ret = stale /\ g2.ret = stale
               /\ g3.ret = stale /\ g4.ret = stale /\ g7.ret = stale
               /\ Len(g5.ret) = Len(stale) + 1
               /\ SubSeq(g5.ret, 1, Len(stale)) = stale
               /\ g5.ret[Len(g5.ret)].content = mb.content
               /\ g6.ret = remote

\* session A appended to conversation 1 and session B still serves its
\* older cached copy
C6_Witness ==
    /\ cm["A"].live /\ cm["B"].live
    /\ IsCached("A", 1) /\ IsCached("B", 1)
    /\ used.faults = 0
    /\ Cached("A", 1) = db_msgs[1]
    /\ Len(Cached("B", 1)) < Len(db_msgs[1])

\* C7: should_generate_title(id) is true exactly when the cached title of id
\* starts with the new-conversation title and the history has two messages
\* or more; the title of an id that is not listed is the unknown title.
C7_TitleTrigger ==
    \A s \in Sessions, id \in Ids :
        cm[s].live =>
            LET l == cm[s].chat_list
                listed == {i \in 1..Len(l) : l[i].id = id}
                title == IF listed = {} THEN UnknownTitle
                         ELSE l[CHOOSE i \in listed : \A j \in listed : i <= j].title
                history == IF IsCached(s, id) THEN Cached(s, id) ELSE db_msgs[id]
                r == ShouldGenerateTitle(Ctx(s), id).ret
            IN /\ r = (StartsWith(title, NewChatTitle) /\ Len(history) >= 2)
               /\ (StartsWith(title, NewChatTitle) /\ Len(history) \in {0, 1}) => ~r
               /\ ~StartsWith(title, NewChatTitle) => ~r
               /\ listed = {} => ~r

\* a conversation still titled as new holds two messages
C7_Witness ==
    /\ cm["A"].live
    /\ \E i \in 1..Len(cm["A"].chat_list) :
          /\ StartsWith(cm["A"].chat_list[i].title, NewChatTitle)
          /\ Len(Cached("A", cm["A"].chat_list[i].id)) = 2

RECURSIVE AddAll(_, _, _, _)
AddAll(k, id, ms, ok) ==
    IF ms = <<>> THEN k
    ELSE AddAll(AddMessage(k, id, Head(ms).role, Head(ms).content,
                           Head(ms).is_rag, Head(ms).chunks, ok),
                id, Tail(ms), ok)

MsgSeqs == UNION {[1..n -> MsgInputs] : n \in 0..MaxMsgs}

\* C8: create_new_chat_with_title followed by n add_message calls and
\* get_chat_histories returns exactly the n messages, in insertion order,
\* with the roles and contents supplied.
C8_RoundTrip ==
    \A s \in Sessions, title \in CreateTitles, ms \in MsgSeqs,
       okc \in BOOLEAN, oka \in BOOLEAN :
        (cm[s].live /\ next_id \in Ids) =>
            LET k0 == CreateNewChatWithTitle(Ctx(s), title, okc)
                id == k0.ret.id
                g == GetChatHistories(AddAll(k0, id, ms, oka), id)
            IN /\ Len(g.ret) = Len(ms)
               /\ \A i \in 1..Len(ms) :
                     /\ g.ret[i].role = ms[i].role
                     /\ g.ret[i].content = ms[i].content

\* the created conversation holds a user message followed by an assistant one
C8_Witness ==
    /\ cm["A"].live
    /\ next_id > 2
    /\ HasId(cm["A"].chat_list, 2)
    /\ Len(Cached("A", 2)) = 2
    /\ Cached("A", 2)[1].role = "user"
    /\ Cached("A", 2)[2].role = "assistant"

\* the hits a query for TOP_K_RESULTS results returns from an index answer
Returned(answer) == Prefix(answer.hits, TOP_K_RESULTS)

\* some returned hit lies within thr
Within(answer, thr) ==
    \E i \in 1..Len(Returned(answer)) : Returned(answer)[i].distance <= thr

\* C9: query reports use_rag exactly when one of the returned hits has a
\* distance at or below RAGManager.threshold as it is at the call, so after
\* the slider assigned a new value the next query compares with that value;
\* a turn that took the retrieval path holds a hit within the threshold.
C9_ThresholdGate ==
    \A s \in Sessions :
        /\ \A q \in UserInputs, answer \in IndexAnswers :
              ~answer.raises =>
                  /\ Query(Ctx(s), q, answer).ret.results = Returned(answer)
                  /\ Query(Ctx(s), q, answer).ret.use_rag
                         = Within(answer, threshold)
                  /\ GetRagResponseData(Ctx(s), q, answer).ret.use_rag
                         = Within(answer, threshold)
        /\ (Resting(s) /\ Shown(s)) =>
              \A v \in SliderValues :
                  LET k == Run(Ctx(s), [NoEvent EXCEPT !.slider = Some(v)])
                  IN /\ k.threshold = v
                     /\ \A q \in UserInputs, answer \in IndexAnswers :
                            ~answer.raises =>
                                Query(k, q, answer).ret.use_rag
                                    = Within(answer, v)
        /\ (gui[s].pc \in {"retrieved", "generated", "ai_saved"} /\ gui[s].use_rag) =>
              \E i \in 1..Len(gui[s].search_results) :
                  gui[s].search_results[i].distance <= threshold

\* after the slider moved the threshold off the default, a turn's retrieval
\* was opened by a hit whose distance equals the threshold, all hits lying
\* above the default
C9_Witness ==
    /\ gui["A"].pc = "retrieved"
    /\ gui["A"].use_rag
    /\ threshold # RAG_THRESHOLD
    /\ \E i \in 1..Len(gui["A"].search_results) :
          gui["A"].search_results[i].distance = threshold
    /\ \A i \in 1..Len(gui["A"].search_results) :
          /\ gui["A"].search_results[i].distance >= threshold
          /\ gui["A"].search_results[i].distance > RAG_THRESHOLD

\* C10: when the document index raises during the retrieval step,
\* get_rag_response_data returns use_rag = False without raising, and no turn
\* is aborted by the retrieval step.
C10_GracefulRetrievalFailure ==
    \A s \in Sessions :
        /\ ~(gui[s].pc = "aborted" /\ gui[s].raised = "index")
        /\ gui[s].pc = "user_saved" =>
              LET k == GetRagResponseData(Ctx(s), gui[s].user_input, IndexRaises)
              IN k.raised = "none" /\ k.ret.use_rag = FALSE

\* the turn of session s has evaluated the retrieval gate
Evaluated(s) == gui[s].pc \in {"retrieved", "generated", "ai_saved", "done"}

\* C11: get_rag_response_data returns an empty context, an empty prompt and
\* no hits whenever use_rag is false, also when the index returned hits; and
\* a non-empty hit list, context and prompt whenever use_rag is true.
C11_EvaluateShape ==
    \A s \in Sessions :
        /\ \A q \in UserInputs, answer \in IndexAnswers :
              ~answer.raises =>
                  LET e == GetRagResponseData(Ctx(s), q, answer).ret
                  IN IF e.use_rag
                     THEN /\ e.search_results # <<>>
                          /\ e.context # <<>>
                          /\ e.prompt # Plain("")
                     ELSE /\ e.search_results = <<>>
                          /\ e.context = <<>>
                          /\ e.prompt = Plain("")
        /\ Evaluated(s) =>
              IF gui[s].use_rag
              THEN /\ gui[s].search_results # <<>>
                   /\ gui[s].rag_context # <<>>
                   /\ gui[s].rag_prompt # Plain("")
              ELSE /\ gui[s].search_results = <<>>
                   /\ gui[s].rag_context = <<>>
                   /\ gui[s].rag_prompt = Plain("")

\* the index returned hits, all above the threshold, and the turn got no hits
C11_Witness ==
    /\ gui["A"].pc = "retrieved"
    /\ ~gui["A"].use_rag
    /\ gui["A"].index_hits > 0
    /\ gui["A"].search_results = <<>>

\* context numbers the hits 1..n in their order, one entry per hit
Numbered(context, hits) ==
    /\ Len(context) = Len(hits)
    /\ \A i \in 1..Len(hits) :
          /\ context[i].n = i
          /\ context[i].source = hits[i].metadata.source
          /\ context[i].page = hits[i].metadata.page
          /\ context[i].text = hits[i].text

\* C12: when the gate opens, the hits get_rag_response_data returns are all
\* the hits the query returned, in their order, also those above the
\* threshold, and the context and the prompt hold one entry per hit,
\* numbered from 1.
C12_WholeBatch ==
    \A s \in Sessions :
        /\ \A q \in UserInputs, answer \in IndexAnswers :
              (~answer.raises /\ Within(answer, threshold)) =>
                  LET e == GetRagResponseData(Ctx(s), q, answer).ret
                  IN /\ e.use_rag
                     /\ e.search_results = Returned(answer)
                     /\ Numbered(e.context, Returned(answer))
                     /\ e.prompt.refs = e.context
                     /\ e.prompt.body = q
        /\ (Evaluated(s) /\ gui[s].use_rag) =>
              /\ Len(gui[s].search_results) = gui[s].index_hits
              /\ Numbered(gui[s].rag_context, gui[s].search_results)
              /\ gui[s].rag_prompt.refs = gui[s].rag_context

\* the gate opened on a batch that holds a hit above the threshold, and the
\* context has an entry for that hit
C12_Witness ==
    /\ gui["A"].pc = "retrieved"
    /\ gui["A"].use_rag
    /\ \E i \in 1..Len(gui["A"].search_results) :
          /\ gui["A"].search_results[i].distance > threshold
          /\ gui["A"].rag_context[i].page = gui["A"].search_results[i].metadata.page

\* the conversation session s has selected
Current(s) == The(ss[s].current_chat.id)

\* every message of the histories session s caches and of the remote store
CachedMessages(s) ==
    UNION {{Cached(s, id)[i] : i \in 1..Len(Cached(s, id))} : id \in Ids}

StoredMessages ==
    UNION {{db_msgs[id][i] : i \in 1..Len(db_msgs[id])} : id \in Ids}

\* m has no chunks field (and not an empty chunk list)
NoProvenance(m) == m.chunks = None

RefsOf(refs, hits) ==
    /\ Len(refs) = Len(hits)
    /\ \A i \in 1..Len(hits) :
          /\ refs[i].chunk_id = <<hits[i].metadata.source, hits[i].metadata.page,
                                  hits[i].metadata.chunk_index>>
          /\ refs[i].distance = hits[i].distance
          /\ refs[i].source = hits[i].metadata.source

\* C14: every cached message with is_rag True has a non-empty chunk list and
\* every cached message with a chunk list has is_rag True; the assistant
\* message a retrieval turn saved has one chunk reference per search hit of
\* the turn, in hit order.
C14_RetrievedHasProvenance ==
    \A s \in Sessions :
        /\ \A m \in CachedMessages(s) :
              /\ m.is_rag = Some(TRUE) => Truthy(m.chunks)
              /\ m.chunks # None => m.is_rag = Some(TRUE)
        /\ (gui[s].pc \in {"ai_saved", "done"} /\ gui[s].use_rag) =>
              LET h == Cached(s, Current(s))
                  m == h[Len(h)]
              IN /\ m.role = "assistant"
                 /\ m.is_rag = Some(TRUE)
                 /\ Truthy(m.chunks)
                 /\ RefsOf(The(m.chunks), gui[s].search_results)
                 /\ Len(The(m.chunks)) = gui[s].index_hits

\* a retrieval turn over two or more hits has saved its assistant message
C14_Witness ==
    /\ gui["A"].pc = "ai_saved"
    /\ gui["A"].use_rag
    /\ Len(gui["A"].search_results) >= 2
    /\ LET h == Cached("A", Current("A"))
       IN /\ h[Len(h)].is_rag = Some(TRUE)
          /\ Len(The(h[Len(h)].chunks)) = Len(gui["A"].search_results)

\* log holds a call of the given name
Calls(log, name) == {i \in 1..Len(log) : log[i].call = name}

\* the last message of the current conversation's cached history is the
\* user message of the turn of session s
EndsWithUserMessage(s) ==
    LET h == Cached(s, Current(s))
    IN /\ h # <<>>
       /\ h[Len(h)].role = "user"
       /\ h[Len(h)].content = gui[s].user_input

\* C15: when the response stream raises, after no fragment or after some,
\* the exception leaves the generation step, nothing is appended to the
\* cache and nothing is written to the remote store, and the aborted turn
\* leaves the history ending with its user message.
C15_GenerationFailure ==
    \A s \in Sessions :
        /\ gui[s].pc = "retrieved" =>
              \A stream \in StreamOutcomes :
                  stream.raises =>
                      LET k == GenerateResponse(Ctx(s), Current(s),
                                   gui[s].use_rag, gui[s].rag_context,
                                   gui[s].rag_prompt, stream)
                      IN /\ k.raised = "stream"
                         /\ k.cm.all_chat_histories = cm[s].all_chat_histories
                         /\ k.db_msgs = db_msgs
                         /\ Calls(k.log, "save_message") = {}
        /\ (gui[s].pc = "aborted" /\ gui[s].raised = "stream") =>
              EndsWithUserMessage(s)

\* a turn was aborted by its response stream
C15_Witness ==
    /\ gui["A"].pc = "aborted"
    /\ gui["A"].raised = "stream"
    /\ EndsWithUserMessage("A")
    /\ \A i \in 1..Len(db_msgs[Current("A")]) :
          db_msgs[Current("A")][i].role = "user"

\* the cached history of the current conversation ends with the user message
\* and the assistant message of the turn of session s
EndsWithExchange(s, h) ==
    /\ Len(h) >= 2
    /\ h[Len(h) - 1].role = "user"
    /\ h[Len(h) - 1].content = gui[s].user_input
    /\ h[Len(h)].role = "assistant"
    /\ h[Len(h)].content = gui[s].full_response

\* C16: when the title chain raises or the remote title update fails during
\* the title check, _auto_generate_title_if_needed returns without raising,
\* the cached and remote histories are what they were, ending with the
\* turn's user and assistant messages, and no turn is aborted by the title
\* check.
C16_TitleBestEffort ==
    \A s \in Sessions :
        /\ gui[s].pc = "ai_saved" =>
              \A gen \in TitleOutcomes, ok \in BOOLEAN :
                  (gen.raises \/ ~ok) =>
                      LET k == AutoGenerateTitleIfNeeded(Ctx(s), gen, ok)
                      IN /\ k.raised = "none"
                         /\ k.ret \in BOOLEAN
                         /\ gen.raises => ~k.ret
                         /\ k.cm.all_chat_histories = cm[s].all_chat_histories
                         /\ k.db_msgs = db_msgs
                         /\ EndsWithExchange(s,
                                The(k.cm.all_chat_histories[Current(s)]))
        /\ ~(gui[s].pc = "aborted" /\ gui[s].raised = "title")
        /\ gui[s].pc = "done" => EndsWithExchange(s, Cached(s, Current(s)))

\* a turn is done whose title check was due and left the title as it was:
\* the title chain raised
C16_Witness ==
    /\ gui["A"].pc = "done"
    /\ used.faults > 0
    /\ GetChatTitleById(Ctx("A"), Current("A")) = NewChatTitle
    /\ EndsWithExchange("A", Cached("A", Current("A")))

\* the positions a turn may move between: a turn starts from rest, saves the
\* user message, evaluates the gate, generates, saves the assistant message
\* and checks the title; retrieval and generation may abort it
TurnOrder ==
    ({"idle", "done", "aborted"} \X {"idle", "user_saved"})
        \cup { <<"user_saved", "retrieved">>, <<"user_saved", "aborted">>,
               <<"retrieved", "generated">>, <<"retrieved", "aborted">>,
               <<"generated", "ai_saved">>, <<"ai_saved", "done">> }

\* the last message of history h has this role and content
EndsWith(h, role, content) ==
    /\ h # <<>>
    /\ h[Len(h)].role = role
    /\ h[Len(h)].content = content

\* C17: every step of a turn follows the order user message saved, gate
\* evaluated, response generated, assistant message saved, title check.  The
\* step that saves the user message appends exactly it to the cached history
\* of the current conversation; the gate is evaluated and the response
\* generated with that message last in the cache and without changing the
\* history; the assistant message, holding the whole generated response, is
\* appended only after generation; the title check follows that append and
\* leaves the history alone, so a turn that is done has appended exactly the
\* user message and then the assistant message.
C17_TurnOrdering ==
    [][\A s \in Sessions :
        LET before == Cached(s, Current(s))
            after == Cached(s, Current(s))'
            from == gui[s].pc
            to == gui[s].pc'
        IN /\ <<from, to>> \in TurnOrder
           /\ to # "idle" => Current(s)' = Current(s)
           /\ to = "user_saved" =>
                 /\ Len(after) = Len(before) + 1
                 /\ SubSeq(after, 1, Len(before)) = before
                 /\ EndsWith(after, "user", gui[s].user_input')
           /\ from \in {"user_saved", "retrieved"} =>
                 /\ EndsWith(before, "user", gui[s].user_input)
                 /\ after = before
           /\ from = "user_saved" => gui[s].full_response' = ""
           /\ to = "ai_saved" =>
                 /\ Len(after) = Len(before) + 1
                 /\ SubSeq(after, 1, Len(before)) = before
                 /\ EndsWith(after, "assistant", gui[s].full_response)
           /\ to = "done" =>
                 /\ after = before
                 /\ EndsWithExchange(s, before)]_vars

\* a retrieval-mode turn on a conversation that was empty is done, its two
\* messages being the whole history
C17_Witness ==
    /\ gui["A"].pc = "done"
    /\ gui["A"].mode = "rag"
    /\ Len(Cached("A", Current("A"))) = 2
    /\ EndsWithExchange("A", Cached("A", Current("A")))

\* the positions of the calls of this name for id in a call log
Positions(log, name, id) == {i \in 1..Len(log) : log[i] = Call(name, id)}

\* the new-conversation button of session s is enabled
CanCreate(s) ==
    /\ Shown(s)
    /\ next_id \in Ids
    /\ LET k0 == InitializeSessionState(NewChatManager(Ctx(s)))
       IN ~HasEmptyChat(k0, k0.cm.chat_list).ret

\* C18: _create_new_chat makes no call to the remote store and leaves it
\* without a record of the new conversation, and a listed conversation whose
\* history is empty has no remote record and no remote message.  When a user
\* message is sent to a conversation whose history is empty, exactly one
\* create_chat for the conversation's id is issued, before the message's
\* save_message, and when it succeeds the remote store lists the id with the
\* conversation's current title; a message to a conversation with history
\* issues no create_chat.
C18_LazyCreation ==
    \A s \in Sessions :
        /\ CanCreate(s) =>
              LET k == CreateNewChat(Ctx(s))
                  new_id == The(k.ss.current_chat.id)
              IN /\ k.log = <<>>
                 /\ k.db_chats = db_chats
                 /\ k.db_msgs = db_msgs
                 /\ ~HasId(k.db_chats, new_id)
                 /\ HasId(k.cm.chat_list, new_id)
        /\ \A id \in Ids :
              (HasId(cm[s].chat_list, id) /\ IsCached(s, id)
                    /\ Cached(s, id) = <<>>) =>
                  ~HasId(db_chats, id) /\ db_msgs[id] = <<>>
        /\ (Resting(s) /\ Shown(s)) =>
              LET k0 == [Run(Ctx(s), NoEvent) EXCEPT !.log = <<>>]
                  id == The(k0.ss.current_chat.id)
                  title == The(k0.ss.current_chat.title)
                  first == Len(RenderChatHistory(k0).ret) = 0
              IN
              \A user_input \in UserInputs, okc \in BOOLEAN, oks \in BOOLEAN :
                  LET k == AddUserMessage(k0, user_input, okc, oks)
                      creates == Positions(k.log, "create_chat", id)
                      saves == Positions(k.log, "save_message", id)
                  IN /\ Cardinality(saves) = 1
                     /\ first =>
                           /\ Cardinality(creates) = 1
                           /\ \A i \in creates, j \in saves : i < j
                           /\ okc => /\ HasId(k.db_chats, id)
                                     /\ k.db_chats[FirstIndex(k.db_chats, id)]
                                            = [id |-> id, title |-> title]
                     /\ ~first =>
                           /\ creates = {}
                           /\ k.db_chats = db_chats

\* the first message to a conversation made by the new-conversation button
\* has been saved: the remote store now lists the conversation under the
\* title it has, with that message
C18_Witness ==
    /\ gui["A"].pc = "user_saved"
    /\ Current("A") = 2
    /\ Len(Cached("A", 2)) = 1
    /\ HasId(db_chats, 2)
    /\ db_chats[FirstIndex(db_chats, 2)] = [id |-> 2, title |-> NewChatTitle]
    /\ Len(db_msgs[2]) = 1

\* the identifiers of a conversation list, in list order
IdsOf(l) == [i \in 1..Len(l) |-> l[i].id]

\* list new is list old with one entry put in front of it
HeadInserted(old, new) == new # <<>> /\ Tail(new) = old

\* C19: create_new_chat_with_title and _create_new_chat put the new
\* conversation at index 0 of the conversation list, in the cache and in the
\* session state, and leave the entries that were listed behind it as they
\* were and in the order they had; every other operation of the cache except
\* refresh_from_db leaves the list with the same identifiers in the same
\* order.
C19_HeadInsertion ==
    \A s \in Sessions :
        cm[s].live =>
            LET k == Ctx(s)
                old == cm[s].chat_list
                Same(r) == IdsOf(r.cm.chat_list) = IdsOf(old)
            IN /\ \A title \in CreateTitles, ok \in BOOLEAN :
                      LET r == CreateNewChatWithTitle(k, title, ok)
                      IN /\ HeadInserted(old, r.cm.chat_list)
                         /\ r.cm.chat_list[1] = r.ret
                         /\ r.ss.chat_list = r.cm.chat_list
               /\ LET r == CreateNewChat(k)
                  IN /\ HeadInserted(old, r.cm.chat_list)
                     /\ r.cm.chat_list[1] =
                            [id |-> k.next_id, title |-> NewChatTitle]
                     /\ r.ss.chat_list = r.cm.chat_list
               /\ Same(NewChatManager(k))
               /\ \A id \in Ids :
                      Known(id) =>
                          /\ Same(GetChatHistories(k, id))
                          /\ Same(ShouldGenerateTitle(k, id))
                          /\ \A m \in MsgInputs, ok \in BOOLEAN :
                                 Same(AddMessage(k, id, m.role, m.content,
                                                 m.is_rag, m.chunks, ok))
                          /\ \A title \in RenameTitles, ok \in BOOLEAN :
                                 Same(UpdateChatTitle(k, id, title, ok))
                          /\ \A gen \in TitleOutcomes :
                                 Same(GenerateChatTitle(k, id, gen))

\* a conversation was created in front of the one that was listed, so the
\* next creation has two entries to keep in order
C19_Witness ==
    /\ cm["A"].live
    /\ Len(cm["A"].chat_list) = 2
    /\ IdsOf(cm["A"].chat_list) = <<2, 1>>
    /\ cm["A"].chat_list[1].title = NumberedNewTitle
    /\ IdsOf(CreateNewChat(Ctx("A")).cm.chat_list) = <<3, 2, 1>>

\* C20: create_new_chat_with_title returns a conversation whether or not the
\* remote store assigned an identifier: with an identifier from the store the
\* store lists the conversation, without one the identifier is generated
\* locally, is new to the list and the store stays as it was; in both cases
\* the returned conversation has the given title, is the head of the
\* conversation list of the cache and of the session, and the histories of
\* both hold the empty history for its id.
C20_CreateFallback ==
    \A s \in Sessions :
        (cm[s].live /\ next_id \in Ids) =>
            \A title \in CreateTitles, ok \in BOOLEAN :
                LET k == Ctx(s)
                    r == CreateNewChatWithTitle(k, title, ok)
                    new_id == r.ret.id
                IN /\ r.raised = "none"
                   /\ r.ret = [id |-> new_id, title |-> title]
                   /\ r.cm.chat_list # <<>>
                   /\ r.cm.chat_list[1] = r.ret
                   /\ r.ss.chat_list = r.cm.chat_list
                   /\ r.cm.all_chat_histories[new_id] = Some(<<>>)
                   /\ r.ss.all_chat_histories[new_id] = Some(<<>>)
                   /\ ~HasId(cm[s].chat_list, new_id)
                   /\ ok => /\ HasId(r.db_chats, new_id)
                            /\ Positions(r.log, "create_chat", new_id) # {}
                   /\ ~ok => /\ new_id = ShortUuid(k).ret
                             /\ r.db_chats = db_chats
                             /\ ~HasId(r.db_chats, new_id)

\* a conversation made while the remote store failed is the head of the
\* list, with the title it was given and an empty history, and the store
\* does not know it
C20_Witness ==
    /\ cm["A"].live
    /\ used.faults > 0
    /\ cm["A"].chat_list # <<>>
    /\ cm["A"].chat_list[1] = [id |-> 2, title |-> NumberedNewTitle]
    /\ IsCached("A", 2) /\ Cached("A", 2) = <<>>
    /\ ~HasId(db_chats, 2)

\* a conversation list that names id 1 twice; the cache is put on it to see
\* which of two matching entries update_chat_title writes
TwiceListed ==
    << [id |-> 2, title |-> NumberedNewTitle],
       [id |-> 1, title |-> NewChatTitle],
       [id |-> 1, title |-> NumberedNewTitle] >>

\* list new is list old with the title of entry i replaced
Retitled(old, new, i, title) ==
    /\ Len(new) = Len(old)
    /\ \A j \in 1..Len(old) :
          new[j] = IF j = i THEN [id |-> old[j].id, title |-> title] ELSE old[j]

\* C21: update_chat_title(id, t) replaces the title of the first entry of
\* the conversation list whose id is id and of no other entry, keeps the
\* list's length and order, leaves the list as it is when no entry has the
\* id, never touches the histories, hands the list to the session state,
\* and issues exactly one remote title update for id in either case.
C21_UpdateTitleFrame ==
    \A s \in Sessions :
        cm[s].live =>
            \A id \in Ids, title \in RenameTitles, ok \in BOOLEAN :
                LET k == Ctx(s)
                    old == cm[s].chat_list
                    r == UpdateChatTitle(k, id, title, ok)
                    d == UpdateChatTitle([k EXCEPT !.cm.chat_list = TwiceListed],
                                         id, title, ok)
                IN /\ HasId(old, id) =>
                          Retitled(old, r.cm.chat_list, FirstIndex(old, id), title)
                   /\ ~HasId(old, id) => r.cm.chat_list = old
                   /\ r.ss.chat_list = r.cm.chat_list
                   /\ r.cm.all_chat_histories = cm[s].all_chat_histories
                   /\ r.ss.all_chat_histories = ss[s].all_chat_histories
                   /\ r.db_msgs = db_msgs
                   /\ r.raised = "none"
                   /\ r.log = <<Call("update_chat_title", id)>>
                   /\ Retitled(TwiceListed, d.cm.chat_list,
                               IF id = 1 THEN 2 ELSE 1, title)

\* the older of two listed conversations was renamed; the newer one, in
\* front of it, has the title it was created with
C21_Witness ==
    /\ cm["A"].live
    /\ Len(cm["A"].chat_list) = 2
    /\ cm["A"].chat_list[1] = [id |-> 2, title |-> NumberedNewTitle]
    /\ cm["A"].chat_list[2] = [id |-> 1, title |-> OtherTitle]

\* conversation id is in neither the cache of session s nor the remote store
Nowhere(s, id) ==
    /\ ~HasId(cm[s].chat_list, id)
    /\ ~IsCached(s, id)
    /\ ~HasId(db_chats, id)
    /\ db_msgs[id] = <<>>

\* C22: add_message and update_chat_title on a conversation id that is in
\* neither the cache nor the remote store raise a not-found error and leave
\* the conversation list and the histories as they were.
C22_MutationNotFound ==
    \A s \in Sessions :
        cm[s].live =>
            \A id \in Ids :
                Nowhere(s, id) =>
                    /\ \A m \in MsgInputs, ok \in BOOLEAN :
                          LET r == AddMessage(Ctx(s), id, m.role, m.content,
                                              m.is_rag, m.chunks, ok)
                          IN /\ r.raised = "not_found"
                             /\ r.cm.chat_list = cm[s].chat_list
                             /\ r.cm.all_chat_histories = cm[s].all_chat_histories
                    /\ \A title \in RenameTitles, ok \in BOOLEAN :
                          LET r == UpdateChatTitle(Ctx(s), id, title, ok)
                          IN /\ r.raised = "not_found"
                             /\ r.cm.chat_list = cm[s].chat_list
                             /\ r.cm.all_chat_histories = cm[s].all_chat_histories

\* title is the title of the first entry of list l whose id is id
FirstTitle(l, id, title) ==
    \E i \in 1..Len(l) :
        /\ l[i].id = id
        /\ l[i].title = title
        /\ \A j \in 1..(i - 1) : l[j].id # id

\* C23: get_chat_title_by_id returns the title of the first entry of the
\* conversation list with the id, and the "unknown conversation" title when
\* no entry has it; being a value computed from the list alone it raises
\* nothing and changes nothing, and should_generate_title, which asks for
\* the title first, answers False for an unlisted id without reading the
\* remote store.
C23_TitleLookup ==
    \A s \in Sessions :
        cm[s].live =>
            \A id \in Ids :
                LET k == Ctx(s)
                    l == cm[s].chat_list
                    d == [k EXCEPT !.cm.chat_list = TwiceListed]
                IN /\ HasId(l, id) => FirstTitle(l, id, GetChatTitleById(k, id))
                   /\ ~HasId(l, id) =>
                         /\ GetChatTitleById(k, id) = UnknownTitle
                         /\ ShouldGenerateTitle(k, id) = [k EXCEPT !.ret = FALSE]
                   /\ FirstTitle(TwiceListed, id, GetChatTitleById(d, id))

\* a conversation the cache made while the remote store failed went away
\* with a refresh: its id has the unknown title, the listed one its own
C23_Witness ==
    /\ cm["A"].live
    /\ next_id = 3
    /\ IdsOf(cm["A"].chat_list) = <<1>>
    /\ GetChatTitleById(Ctx("A"), 2) = UnknownTitle
    /\ GetChatTitleById(Ctx("A"), 1) = OtherTitle

\* context k serves history h for id from memory: without a remote call
ServesFromMemory(k, id, h) ==
    LET r == GetChatHistories([k EXCEPT !.log = <<>>], id)
    IN r.ret = h /\ r.log = <<>> /\ r.raised = "none"

CurrentIs(k, id) ==
    /\ k.ss.has_current_chat
    /\ k.ss.current_chat.id = Some(id)

\* C25: once the GUI is initialised the session holds one current
\* conversation id.  _initialize_session_state defines it and keeps a
\* defined one; selecting a listed conversation makes that one current; the
\* new-conversation button makes the new conversation, the head of the
\* list, current; moving the slider, saving the user message, saving the
\* assistant message and the title check leave it as it is.
C25_OneCurrent ==
    \A s \in Sessions :
        /\ LET k == InitializeSessionState(NewChatManager(Ctx(s)))
           IN /\ k.ss.has_current_chat
              /\ Cardinality(k.ss.current_chat.id) = 1
              /\ ss[s].has_current_chat => k.ss.current_chat.id = ss[s].current_chat.id
        /\ Shown(s) => Cardinality(ss[s].current_chat.id) = 1
        /\ (Resting(s) /\ Shown(s)) =>
              LET k0 == Run(Ctx(s), NoEvent)
              IN /\ \A id \in Ids :
                       HasId(ss[s].chat_list, id) =>
                           CurrentIs(Run(Ctx(s),
                                         [NoEvent EXCEPT !.select = Some(id)]),
                                     id)
                 /\ \A v \in SliderValues :
                       CurrentIs(Run(Ctx(s),
                                     [NoEvent EXCEPT !.slider = Some(v)]),
                                 Current(s))
                 /\ CurrentIs(k0, Current(s))
                 /\ \A q \in UserInputs, okc \in BOOLEAN, oks \in BOOLEAN :
                       CurrentIs(AddUserMessage(k0, q, okc, oks), Current(s))
        /\ (Resting(s) /\ CanCreate(s)) =>
              LET k == Run(Ctx(s), [NoEvent EXCEPT !.new_chat = TRUE])
              IN /\ CurrentIs(k, next_id)
                 /\ k.cm.chat_list[1].id = next_id
                 /\ ~HasId(cm[s].chat_list, next_id)
        /\ gui[s].pc = "generated" =>
              \A ok \in BOOLEAN :
                  CurrentIs(AddAiMessage(Ctx(s), gui[s].full_response,
                                         FALSE, None, ok), Current(s))
        /\ gui[s].pc = "ai_saved" =>
              \A gen \in TitleOutcomes, ok \in BOOLEAN :
                  LET k == AutoGenerateTitleIfNeeded(Ctx(s), gen, ok)
                  IN /\ CurrentIs(k, Current(s))
                     /\ CurrentIs(Page(k), Current(s))

\* with two conversations listed the older one was selected: it is current
\* and not the head of the list
C25_Witness ==
    /\ Shown("A")
    /\ gui["A"].pc = "idle"
    /\ IdsOf(ss["A"].chat_list) = <<2, 1>>
    /\ ss["A"].current_chat.id = Some(1)
    /\ ss["A"].current_chat.title = Some(GetChatTitleById(Ctx("A"), 1))

\* core is raw without the spaces at its two ends
Stripped(raw, core) ==
    \E i \in 1..(Len(raw) + 1) :
        /\ \A n \in 1..(i - 1) : raw[n] = " "
        /\ i <= Len(raw) => raw[i] # " "
        /\ \E j \in (i - 1)..Len(raw) :
              /\ \A n \in (j + 1)..Len(raw) : raw[n] = " "
              /\ j >= i => raw[j] # " "
              /\ core = SubSeq(raw, i, j)

\* the generator's form of message m of a history
Translated(m) ==
    [type |-> IF m.role = "user" THEN "human" ELSE "ai",
     content |-> Plain(m.content)]

\* C26: generate_chat_title hands the title chain the translation of the
\* first two messages of the history, in order, however long the history
\* is, and returns the chain's answer without the spaces around it, cut to
\* its first TITLE_MAX_LENGTH characters when it is longer; the title is
\* never longer than that.
C26_TitleFromOpening ==
    \A s \in Sessions :
        Shown(s) =>
            \A id \in Ids, gen \in TitleOutcomes :
                (IsCached(s, id) /\ ~gen.raises) =>
                    LET h == Cached(s, id)
                        r == GenerateChatTitle(Ctx(s), id, gen)
                        n == IF Len(h) < 2 THEN Len(h) ELSE 2
                    IN /\ r.raised = "none"
                       /\ Len(r.title_input) = n
                       /\ \A i \in 1..n : r.title_input[i] = Translated(h[i])
                       /\ Len(r.ret) <= TITLE_MAX_LENGTH
                       /\ \E core \in {Strip(gen.raw)} :
                             /\ Stripped(gen.raw, core)
                             /\ Len(core) <= TITLE_MAX_LENGTH => r.ret = core
                             /\ Len(core) > TITLE_MAX_LENGTH =>
                                   /\ Len(r.ret) = TITLE_MAX_LENGTH
                                   /\ \A i \in 1..TITLE_MAX_LENGTH :
                                          r.ret[i] = core[i]
                       /\ r.cm.all_chat_histories = cm[s].all_chat_histories

\* the turn on a conversation that held a message already is done and its
\* title was generated, cut to TITLE_MAX_LENGTH characters, from the first
\* two of its three messages
C26_Witness ==
    /\ gui["A"].pc = "done"
    /\ Len(Cached("A", Current("A"))) = 3
    /\ Len(GetChatTitleById(Ctx("A"), Current("A"))) = TITLE_MAX_LENGTH
    /\ GetChatTitleById(Ctx("A"), Current("A"))
           = SubSeq(PaddedLongTitle, 2, TITLE_MAX_LENGTH + 1)
    /\ ss["A"].current_chat.title
           = Some(SubSeq(PaddedLongTitle, 2, TITLE_MAX_LENGTH + 1))

\* sent is the generator's input for history h whose last message is the
\* question of the turn, last being the human turn that carries the question:
\* one entry per message, the earlier ones translated as they are
InputFor(sent, h, last) ==
    /\ Len(sent) = Len(h)
    /\ \A i \in 1..(Len(h) - 1) : sent[i] = Translated(h[i])
    /\ sent[Len(h)] = [type |-> "human", content |-> last]

\* C27: in retrieval mode the generator is called under the retrieval
\* instruction with the translated history without its last message,
\* followed by the augmented prompt as the last human turn; otherwise it is
\* called under the default instruction with the translation of the whole
\* history, whose last entry is the user message.  Either way the input has
\* one entry per message of the history, so the question of the turn is in
\* it once, as its last entry, and building the input leaves the cached and
\* the remote history as they were.
C27_GeneratorInput ==
    \A s \in Sessions :
        /\ gui[s].pc = "retrieved" =>
              \A stream \in StreamOutcomes :
                  ~stream.raises =>
                      LET h == Cached(s, Current(s))
                          retrieval == gui[s].use_rag /\ gui[s].rag_context # <<>>
                          r == GenerateResponse(Ctx(s), Current(s), gui[s].use_rag,
                                   gui[s].rag_context, gui[s].rag_prompt, stream)
                      IN /\ r.raised = "none"
                         /\ retrieval =>
                               /\ r.ret.mode = "rag"
                               /\ r.log = <<Call("rag_chain", 0)>>
                               /\ InputFor(r.ret.sent, h, gui[s].rag_prompt)
                               /\ gui[s].rag_prompt =
                                      BuildRagPrompt(gui[s].user_input,
                                                     gui[s].rag_context)
                         /\ ~retrieval =>
                               /\ r.ret.mode = "normal"
                               /\ r.log = <<Call("chain", 0)>>
                               /\ InputFor(r.ret.sent, h, Plain(gui[s].user_input))
                         /\ r.cm.all_chat_histories = cm[s].all_chat_histories
                         /\ r.ss.all_chat_histories = ss[s].all_chat_histories
                         /\ r.db_msgs = db_msgs
        /\ gui[s].pc = "generated" =>
              InputFor(gui[s].sent, Cached(s, Current(s)),
                       IF gui[s].mode = "rag" THEN gui[s].rag_prompt
                       ELSE Plain(gui[s].user_input))

\* a retrieval-mode response was generated in a conversation that held a
\* message before the turn: the input is that message and the augmented
\* prompt, not the raw question
C27_Witness ==
    /\ gui["A"].pc = "generated"
    /\ gui["A"].mode = "rag"
    /\ Len(Cached("A", Current("A"))) = 2
    /\ Len(gui["A"].sent) = 2
    /\ gui["A"].sent[2].content.wrapped
    /\ gui["A"].sent[2].content.body = gui["A"].user_input
    /\ gui["A"].sent[1] = Translated(Cached("A", Current("A"))[1])

\* the longest history format_chat_histories is tried on
MaxRoles == 3

\* the two roles the cache writes and one it does not
Roles == {"user", "assistant", "system"}

\* the histories of at most MaxRoles messages of these roles, the contents
\* alternating
RoleSeqs ==
    UNION { { [i \in 1..n |->
                  [role |-> rs[i], content |-> IF i % 2 = 1 THEN "q" ELSE "r",
                   is_rag |-> None, chunks |-> None]] :
              rs \in [1..n -> Roles] } : n \in 0..MaxRoles }

\* message m has one of the two roles that are translated
Spoken(m) == m.role \in {"user", "assistant"}

\* C28: format_chat_histories keeps the order of the messages, turns a user
\* message into a human turn and an assistant message into an AI turn of the
\* same content, and passes over a message of any other role, so the result
\* has as many entries as the history has user and assistant messages; a
\* cached history, which holds these two roles only, is translated entry by
\* entry.
C28_Translation ==
    /\ \A h \in RoleSeqs :
          LET f == FormatChatHistories(h)
              kept == SelectSeq(h, Spoken)
          IN /\ Len(f) = Cardinality({i \in 1..Len(h) : Spoken(h[i])})
             /\ Len(f) = Len(kept)
             /\ \A i \in 1..Len(kept) : f[i] = Translated(kept[i])
    /\ \A s \in Sessions, id \in Ids :
          IsCached(s, id) =>
              LET h == Cached(s, id)
                  f == FormatChatHistories(h)
              IN /\ Len(f) = Len(h)
                 /\ \A i \in 1..Len(h) : f[i] = Translated(h[i])

\* the cache holds a history with a user and an assistant message, which
\* translates to a human and an AI turn, and a history with a message of
\* another role between them translates to the same two turns
C28_Witness ==
    /\ IsCached("A", 1)
    /\ Len(Cached("A", 1)) >= 2
    /\ \E i \in 1..(Len(Cached("A", 1)) - 1) :
          /\ Cached("A", 1)[i].role = "user"
          /\ Cached("A", 1)[i + 1].role = "assistant"
          /\ FormatChatHistories(Cached("A", 1))[i].type = "human"
          /\ FormatChatHistories(Cached("A", 1))[i + 1].type = "ai"
          /\ FormatChatHistories(
                 << Cached("A", 1)[i],
                    [role |-> "system", content |-> "r",
                     is_rag |-> None, chunks |-> None],
                    Cached("A", 1)[i + 1] >>)
                = FormatChatHistories(SubSeq(Cached("A", 1), i, i + 1))

\* histories a and b hold the same roles and contents in the same order
SameMessages(a, b) ==
    /\ Len(a) = Len(b)
    /\ \A i \in 1..Len(a) :
          a[i].role = b[i].role /\ a[i].content = b[i].content

\* C29: as long as no remote call has failed, after every operation of the
\* cache the history cached for an id holds the messages the remote store
\* holds for it, and add_message on an id whose history is not cached leaves
\* a cached history that holds every message the store held before.
C29_WriteThrough ==
    \A s \in Sessions :
        (cm[s].live /\ used.faults = 0) =>
            \A id \in Ids :
                /\ IsCached(s, id) => SameMessages(Cached(s, id), db_msgs[id])
                /\ ~IsCached(s, id) =>
                      \A m \in MsgInputs :
                          LET r == AddMessage(Ctx(s), id, m.role, m.content,
                                              m.is_rag, m.chunks, TRUE)
                          IN SameMessages(The(r.cm.all_chat_histories[id]),
                                          r.db_msgs[id])

\* C30: whenever the title check of a turn finds should_generate_title
\* true, the history holds at least two messages, the first a user message
\* and the second the assistant's reply to it, and these two are what
\* generate_chat_title hands to the title chain.
C30_OpeningExchange ==
    \A s \in Sessions :
        (gui[s].pc = "ai_saved" /\ ShouldGenerateTitle(Ctx(s), Current(s)).ret) =>
            LET h == Cached(s, Current(s))
            IN /\ Len(h) >= 2
               /\ h[1].role = "user"
               /\ h[2].role = "assistant"
               /\ \A gen \in TitleOutcomes :
                     GenerateChatTitle(Ctx(s), Current(s), gen).title_input
                         = << CreateHumanMessage(Plain(h[1].content)),
                              CreateAiMessage(Plain(h[2].content)) >>
\* the last message of h is an assistant message tagged is_rag = tag
TaggedLast(h, tag) ==
    /\ h # <<>>
    /\ h[Len(h)].role = "assistant"
    /\ h[Len(h)].is_rag = Some(tag)

\* C31: in every turn the assistant message is kept, in the cache and in the
\* remote store, with is_rag True exactly when its text came from the
\* retrieval path (retrieval instruction, augmented prompt as the last
\* entry): the branch on use_rag and a non-empty context takes the retrieval
\* path exactly when use_rag is True, because the context of a passed gate
\* is never empty.
C31_ModeAndTag ==
    \A s \in Sessions :
        /\ gui[s].pc \in {"retrieved", "generated", "ai_saved"} =>
              (gui[s].use_rag <=> gui[s].rag_context # <<>>)
        /\ gui[s].pc = "retrieved" =>
              \A stream \in StreamOutcomes :
                  LET r == GenerateResponse(Ctx(s), Current(s), gui[s].use_rag,
                               gui[s].rag_context, gui[s].rag_prompt, stream)
                  IN r.raised = "none" =>
                        /\ (r.ret.mode = "rag") <=> gui[s].use_rag
                        /\ (r.log = <<Call("rag_chain", 0)>>) <=> gui[s].use_rag
                        /\ r.ret.sent[Len(r.ret.sent)].content.wrapped
                               <=> gui[s].use_rag
        /\ gui[s].pc = "generated" =>
              /\ (gui[s].mode = "rag") <=> gui[s].use_rag
              /\ \A ok \in BOOLEAN :
                    LET chunks_to_save ==
                            IF gui[s].use_rag /\ gui[s].search_results # <<>>
                            THEN Some(FormatChunksForSave(gui[s].search_results))
                            ELSE None
                        k == AddAiMessage(Ctx(s), gui[s].full_response,
                                          gui[s].use_rag, chunks_to_save, ok)
                    IN /\ TaggedLast(The(k.cm.all_chat_histories[Current(s)]),
                                     gui[s].mode = "rag")
                       /\ ok => TaggedLast(k.db_msgs[Current(s)],
                                           gui[s].mode = "rag")
        /\ gui[s].pc = "ai_saved" =>
              /\ TaggedLast(Cached(s, Current(s)), gui[s].mode = "rag")
              /\ gui[s].sent[Len(gui[s].sent)].content.wrapped
                     <=> (gui[s].mode = "rag")

\* a turn answered on the retrieval path, with a hit beyond the threshold
\* among its results, has saved its assistant message with is_rag True, in the cache and in the
\* remote store
C31_Witness ==
    /\ gui["A"].pc = "ai_saved"
    /\ gui["A"].mode = "rag"
    /\ gui["A"].use_rag
    /\ \E i \in 1..Len(gui["A"].search_results) :
          gui["A"].search_results[i].distance > threshold
    /\ TaggedLast(Cached("A", Current("A")), TRUE)
    /\ TaggedLast(db_msgs[Current("A")], TRUE)

\* st.session_state holds the very list and the very dict of the cache
Mirror(k) ==
    /\ k.ss.has_chat_list /\ k.ss.has_histories
    /\ k.cm.al_cl /\ k.cm.al_h
    /\ k.ss.chat_list = k.cm.chat_list
    /\ k.ss.all_chat_histories = k.cm.all_chat_histories

\* a ChatManager constructed anew over the session of k
Reconstructed(k) ==
    NewChatManager([k EXCEPT !.cm = NoChatManager, !.log = <<>>])

\* C32: between the operations of a constructed cache the session's
\* chat_list and all_chat_histories are the cache's, so a cache constructed
\* anew from the session holds the list and the histories of the instance
\* before it, without a remote call; this is so after a history load, an
\* appended message, a created conversation, a changed title and a refresh
\* (every state the operations reach), and after the new-conversation
\* action of the GUI applied to any such state.
C32_SessionMirror ==
    \A s \in Sessions :
        cm[s].live =>
            /\ Mirror(Ctx(s))
            /\ LET r == Reconstructed(Ctx(s))
               IN /\ r.cm.chat_list = cm[s].chat_list
                  /\ r.cm.all_chat_histories = cm[s].all_chat_histories
                  /\ r.log = <<>>
                  /\ r.ss = ss[s]
            /\ next_id \in Ids =>
                  LET k == CreateNewChat(Ctx(s))
                      r == Reconstructed(k)
                  IN /\ Mirror(k)
                     /\ HasId(k.cm.chat_list, next_id)
                     /\ r.cm.chat_list = k.cm.chat_list
                     /\ r.cm.all_chat_histories = k.cm.all_chat_histories

\* the session mirrors a cache that lists two conversations, one of them
\* created and one renamed, and holds a history of two appended messages
C32_Witness ==
    /\ cm["A"].live
    /\ Mirror(Ctx("A"))
    /\ Len(cm["A"].chat_list) = 2
    /\ \E i \in 1..2 : cm["A"].chat_list[i].title \in RenameTitles
    /\ \E id \in Ids : Len(Cached("A", id)) = 2

\* a remote store that holds no conversation
EmptyStore ==
    [chats |-> <<>>, msgs |-> [i \in Ids |-> <<>>], next |-> 1]

\* the first script run of a session over the remote store st
FirstRun(st) ==
    Run([cm |-> NoChatManager, ss |-> EmptySession,
         db_chats |-> st.chats, db_msgs |-> st.msgs, next_id |-> st.next,
         threshold |-> RAG_THRESHOLD,
         ret |-> None, log |-> <<>>, raised |-> "none", title_input |-> <<>>,
         fetch_raises |-> FALSE],
        NoEvent)

\* the current conversation of k is an entry of the cache's list
CurrentListed(k) ==
    /\ k.ss.has_current_chat
    /\ k.ss.current_chat.id # None
    /\ HasId(k.cm.chat_list, The(k.ss.current_chat.id))

\* C33: once the GUI is initialised the current conversation id is the id
\* of an entry of the cache's conversation list: after the first script run
\* over any remote store, an empty one included, in every state the session
\* reaches, and in the script run that follows a refresh_from_db called
\* between two script runs.
C33_CurrentListed ==
    /\ \A st \in InitialStores \cup {EmptyStore} : CurrentListed(FirstRun(st))
    /\ \A s \in Sessions :
          (Shown(s) /\ cm[s].live) =>
              /\ CurrentListed(Ctx(s))
              /\ Resting(s) =>
                    CurrentListed(Run(RefreshFromDb(Ctx(s)), NoEvent))

\* the next turn of the current conversation of k, up to its title check:
\* the script runs again, a message is sent, answered and saved
NextTurn(k) ==
    LET k1 == AddUserMessage(Page(k), "q", TRUE, TRUE)
        k2 == AddAiMessage(k1, "ab", FALSE, None, TRUE)
    IN [k2 EXCEPT !.log = <<>>, !.title_input = <<>>]

\* C34: a conversation is titled by the generator at most once: when the
\* title check of a turn has generated a title and applied it, whatever
\* the generator answered, the title check of the next turn of the same
\* conversation does not call the generator.
C34_TitledOnce ==
    \A s \in Sessions :
        gui[s].pc = "ai_saved" =>
            \A gen \in TitleOutcomes, ok \in BOOLEAN :
                LET k == AutoGenerateTitleIfNeeded(Ctx(s), gen, ok)
                IN k.ret =>
                      \A gen2 \in TitleOutcomes :
                          LET r == AutoGenerateTitleIfNeeded(NextTurn(k), gen2, TRUE)
                          IN /\ ~r.ret
                             /\ Calls(r.log, "title_chain") = {}

\* the remote creates for conversation id among the calls of log
CreatesOf(log, id) == {i \in 1..Len(log) : log[i] = Call("create_chat", id)}

\* C35: the remote create is issued at most once for a conversation id and
\* never for a conversation the remote store already holds: a message is
\* sent from any state between two script runs, with the remote create and
\* the remote save succeeding or failing, the turn fails during generation,
\* refresh_from_db is called or not, and a second message is sent to the
\* same conversation; over the two turns no id is created twice, and no id
\* of the remote list is created at all.
C35_CreateOnce ==
    \A s \in Sessions :
        (Resting(s) /\ Shown(s)) =>
            LET k0 == Run(Ctx(s), NoEvent)
            IN \A okc \in BOOLEAN, oks \in BOOLEAN, refresh \in BOOLEAN :
                  LET k1 == AddUserMessage(k0, "q", okc, oks)
                      k2 == IF refresh THEN RefreshFromDb(k1) ELSE k1
                      k3 == AddUserMessage(Run([k2 EXCEPT !.log = <<>>], NoEvent),
                                           "q", TRUE, TRUE)
                  IN \A id \in Ids :
                        /\ Cardinality(CreatesOf(k1.log, id))
                               + Cardinality(CreatesOf(k3.log, id)) <= 1
                        /\ HasId(db_chats, id) => CreatesOf(k1.log, id) = {}

\* C36: when the fetch of the conversation list raises during
\* refresh_from_db, the exception leaves the method and the cache's list and
\* histories, the session's copies and the remote store are what they were
\* before the call; a refresh whose fetch succeeds is the only one that
\* discards the histories.
C36_FailedRefreshKeeps ==
    \A s \in Sessions :
        cm[s].live =>
            LET failed == RefreshFromDb([Ctx(s) EXCEPT !.fetch_raises = TRUE])
                fetched == RefreshFromDb(Ctx(s))
            IN /\ failed.raised = "store"
               /\ failed.log = <<Call("get_all_chats", 0)>>
               /\ failed.cm = cm[s]
               /\ failed.ss = ss[s]
               /\ failed.db_chats = db_chats
               /\ failed.db_msgs = db_msgs
               /\ fetched.raised = "none"
               /\ fetched.cm.all_chat_histories = EmptyDict
               /\ fetched.cm.chat_list = db_chats

\* after a refresh whose list fetch raised, with one failure used, nothing
\* appended or created and no title changed: the cache still holds the
\* history it had loaded, and so does the session
C36_Witness ==
    /\ cm["A"].live
    /\ used.faults = 1 /\ used.adds = 0
    /\ next_id = 2
    /\ cm["A"].chat_list = <<[id |-> 1, title |-> NewChatTitle]>>
    /\ db_chats = cm["A"].chat_list
    /\ IsCached("A", 1)
    /\ Len(Cached("A", 1)) = 1
    /\ ss["A"].all_chat_histories = cm["A"].all_chat_histories

====
